---------------------------- MODULE Spec2Model ----------------------------
(***************************************************************************)
(* Entity access layer of ts-boilerplate (server/src/db/queries/           *)
(* base.queries.ts): the naming transform, the predicate and mutation      *)
(* builders and the CRUD operations of BaseQueries, with the relational    *)
(* store as an environment that answers each issued statement.             *)
(*                                                                         *)
(* Representation.  A JavaScript string that the code rewrites character   *)
(* by character (a field or column name) is a sequence of one-character    *)
(* strings.  An object used as an ordered mapping is the sequence of its   *)
(* [key, value] entries in Object.entries order, keys distinct.  A         *)
(* JavaScript value is a string: Undefined and Null stand for undefined    *)
(* and null, "0", "1", "2" for the numbers, "true"/"false" for the         *)
(* booleans and any other string for itself.  An optional argument is a    *)
(* sequence of length 0 (not given) or 1.  A statement text is the         *)
(* sequence of its tokens, a placeholder $n being the token Placeholder(n).*)
(***************************************************************************)
EXTENDS Integers, Sequences, FiniteSets, TLC

VARIABLES
    COLUMN_MAP,   \* the override table of the access object (field -> column)
    pc,           \* position of the caller: "idle", "awaiting", "settled"
    call,         \* the operation being called and its arguments
    issued,       \* the statements this call handed to db.query, in order
    response,     \* the store's answer to the awaited statement, if any
    outcome,      \* what the call gave back to the caller
    sessions,     \* the sessions of the pool: where each is and what it was sent
    cooldowns,    \* cooldown manager: command name -> its Map of entries,
    maps,         \*   the Map objects alive (held by cooldowns or by a timer),
    timers,       \*   the setTimeout callbacks not yet run,
    now,          \*   Date.now() in milliseconds,
    history,      \*   the set() calls made so far, in order,
    commandHandlers, \* and the registered commands: name -> command module
    handling,     \* the interactions handleChatCommands was called for
    domainEntity, \* round trip of the naming transform: the entity written,
    storageRow,   \*   the storage row made of it, if made yet,
    mappedEntity  \*   and the entity mapped back from that row, if mapped yet

queryVars == <<COLUMN_MAP, pc, call, issued, response, outcome>>

namingVars == <<domainEntity, storageRow, mappedEntity>>

poolVars == <<sessions>>

cooldownVars == <<cooldowns, maps, timers, now, history, commandHandlers>>

handlerVars == <<handling>>

vars == <<queryVars, poolVars, cooldownVars, handlerVars, namingVars>>

-----------------------------------------------------------------------------
(* Bounds of the model *)

\* largest number of rows the store returns or reports as affected
MaxRows == 2

\* sessions the pool holds
MaxSessions == 2

\* set() calls of the cooldown manager in one behaviour
MaxSets == 2

\* seconds the clock of the cooldown manager runs
MaxNow == 2

\* interactions handled in one behaviour
MaxInteractions == 2

\* statements a caller sends on a session that begin() handed over
MaxClientStatements == 1

-----------------------------------------------------------------------------
(* JavaScript values *)

Undefined == "<undefined>"
Null == "<null>"

\* values a caller passes in a mapping
Values == {Undefined, Null, "a", "b"}

\* values of an Update mapping
UpdateValues == {Null, "a", "b"}

\* the count a SELECT COUNT(*) row carries
CountValues == {Null, "0", "2"}

\* ToBoolean of the values used here
Truthy(v) == v \notin {Undefined, Null, "false", "0", ""}

-----------------------------------------------------------------------------
(* Characters and the naming transform *)

UpperChars ==
    <<"A","B","C","D","E","F","G","H","I","J","K","L","M",
      "N","O","P","Q","R","S","T","U","V","W","X","Y","Z">>

LowerChars ==
    <<"a","b","c","d","e","f","g","h","i","j","k","l","m",
      "n","o","p","q","r","s","t","u","v","w","x","y","z">>

IndexIn(c, chars) == CHOOSE i \in 1..Len(chars) : chars[i] = c

UpperSet == { UpperChars[i] : i \in 1..Len(UpperChars) }

LowerSet == { LowerChars[i] : i \in 1..Len(LowerChars) }

LowerOf == [c \in UpperSet |-> LowerChars[IndexIn(c, UpperChars)]]

UpperOf == [c \in LowerSet |-> UpperChars[IndexIn(c, LowerChars)]]

\* [A-Z]
IsUpper(c) == c \in UpperSet

\* [a-z]
IsLower(c) == c \in LowerSet

toLowerCase(c) == IF IsUpper(c) THEN LowerOf[c] ELSE c

toUpperCase(c) == IF IsLower(c) THEN UpperOf[c] ELSE c

\* snakeToCamel as it would be if the letter after an underscore kept its case
RECURSIVE snakeToCamel_KeepsCase(_)
snakeToCamel_KeepsCase(str) ==
    IF str = <<>> THEN <<>>
    ELSE IF Len(str) >= 2 /\ str[1] = "_" /\ IsLower(str[2])
         THEN <<str[2]>> \o snakeToCamel_KeepsCase(SubSeq(str, 3, Len(str)))
         ELSE <<str[1]>> \o snakeToCamel_KeepsCase(Tail(str))

\* str.replace(/_([a-z])/g, (_, letter) => letter.toUpperCase())
RECURSIVE snakeToCamel(_)
snakeToCamel(str) ==
    IF str = <<>> THEN <<>>
    ELSE IF Len(str) >= 2 /\ str[1] = "_" /\ IsLower(str[2])
         THEN <<toUpperCase(str[2])>> \o snakeToCamel(SubSeq(str, 3, Len(str)))
         ELSE <<str[1]>> \o snakeToCamel(Tail(str))

\* str.replace(/[A-Z]/g, (letter) => `_${letter.toLowerCase()}`)
RECURSIVE camelToSnake(_)
camelToSnake(str) ==
    IF str = <<>> THEN <<>>
    ELSE (IF IsUpper(str[1]) THEN <<"_", toLowerCase(str[1])>> ELSE <<str[1]>>)
         \o camelToSnake(Tail(str))

-----------------------------------------------------------------------------
(* The entity configuration: Ticket {id, channelId, status}.  Field names and
   override columns are non-empty, so no column is falsy and the
   `Invalid column key` throw of getColumnMapping is never taken. *)

table == <<"t","i","c","k","e","t","s">>

F_id == <<"i","d">>
F_channelId == <<"c","h","a","n","n","e","l","I","d">>
F_status == <<"s","t","a","t","u","s">>

EntityFields == <<F_id, F_channelId, F_status>>
IdentifierFields == {F_id, F_channelId}
UpdateFields == {F_channelId, F_status}
FilterFields == {F_channelId, F_status}

\* the override tables an access object may be constructed with: none, or one
\* that names the column of channelId
ColumnMaps ==
    { <<>>,
      << <<F_channelId, <<"c","h","a","n","n","e","l">>>> >> }

-----------------------------------------------------------------------------
(* Ordered mappings *)

\* all mappings with at most two entries, keys distinct, in every order
Mappings(fields, values) ==
    {<<>>}
    \cup { <<<<k, v>>>> : k \in fields, v \in values }
    \cup { <<<<k1, v1>>, <<k2, v2>>>> :
             <<k1, k2>> \in {p \in fields \X fields : p[1] # p[2]},
             <<v1, v2>> \in values \X values }

Identifiers == Mappings(IdentifierFields, Values)
Updates == Mappings(UpdateFields, UpdateValues)
Filters == Mappings(FilterFields, Values)
OptionalFilters == {<<>>} \cup { <<f>> : f \in Filters }

\* obj[key] = value on an ordered mapping: a present key keeps its place
RECURSIVE Assign(_, _, _)
Assign(obj, key, value) ==
    IF obj = <<>> THEN << <<key, value>> >>
    ELSE IF obj[1][1] = key THEN << <<key, value>> >> \o Tail(obj)
         ELSE <<obj[1]>> \o Assign(Tail(obj), key, value)

\* the value of a present key
Lookup(obj, key) == obj[CHOOSE i \in 1..Len(obj) : obj[i][1] = key][2]

HasKey(obj, key) == \E i \in 1..Len(obj) : obj[i][1] = key

\* getColumnName as it would be with the override table left unread
getColumnName_IgnoresOverride(key) == camelToSnake(key)

\* this.COLUMN_MAP?.[key] ?? this.camelToSnake(key)
getColumnName(key) ==
    IF HasKey(COLUMN_MAP, key) THEN Lookup(COLUMN_MAP, key) ELSE camelToSnake(key)

-----------------------------------------------------------------------------
(* Statement text *)

Kw(word) == [kind |-> "kw", name |-> <<word>>, num |-> 0]
Ident(name) == [kind |-> "ident", name |-> name, num |-> 0]
Placeholder(n) == [kind |-> "ph", name |-> <<"$">>, num |-> n]

\* parts.join(sep)
RECURSIVE Join(_, _)
Join(parts, sep) ==
    IF parts = <<>> THEN <<>>
    ELSE IF Len(parts) = 1 THEN parts[1]
         ELSE parts[1] \o <<Kw(sep)>> \o Join(Tail(parts), sep)

\* `${column} = $${n}`
Equals(column, n) == <<Ident(column), Kw("="), Placeholder(n)>>

-----------------------------------------------------------------------------
(* Errors and outcomes *)

\* an error object: its name and message, the entityName and criteria of a
\* NotFoundError, the query of a QueryError
NoError ==
    [name |-> "", message |-> "", entityName |-> <<>>, criteria |-> <<>>, query |-> <<>>]

\* new Error(message)
PlainError(message) ==
    [NoError EXCEPT !.name = "Error", !.message = message]

\* new NotFoundError(entityName, criteria); the message text is left out
createNotFoundError(entityName, criteria) ==
    [NoError EXCEPT !.name = "NotFoundError", !.message = "not found",
                    !.entityName = entityName, !.criteria = criteria]

\* what the store client rejects a statement with
StoreErrors ==
    { [NoError EXCEPT !.name = "StoreError", !.message = m] :
        m \in {"unique_violation", "connection_failure"} }

\* Object.entries(undefined) and reads of a property of undefined
TypeError == PlainError("TypeError")

\* no session
NoClient == 0

Pending ==
    [kind |-> "pending", error |-> NoError, entity |-> <<>>, entities |-> <<>>,
     count |-> 0, value |-> Undefined, client |-> NoClient]

Throw(error) == [Pending EXCEPT !.kind = "throw", !.error = error]

Return == [Pending EXCEPT !.kind = "return"]

\* a returned entity <<e>>, or null as <<>>
ReturnEntity(option) == [Return EXCEPT !.entity = option]

ReturnEntities(entities) == [Return EXCEPT !.entities = entities]

ReturnCount(n) == [Return EXCEPT !.count = n]

ReturnValue(v) == [Return EXCEPT !.value = v]

ReturnClient(s) == [Return EXCEPT !.client = s]

-----------------------------------------------------------------------------
(* Row mapper *)

\* for (const [key, value] of Object.entries(row)) entity[snakeToCamel(key)] = value
RECURSIVE mapRowFrom(_, _)
mapRowFrom(entity, row) ==
    IF row = <<>> THEN entity
    ELSE mapRowFrom(Assign(entity, snakeToCamel(row[1][1]), row[1][2]), Tail(row))

mapRowToEntity(row) == mapRowFrom(<<>>, row)

mapRowsToEntities(rows) == [i \in 1..Len(rows) |-> mapRowToEntity(rows[i])]

-----------------------------------------------------------------------------
(* Predicate builder *)

Built(stmt) == [threw |-> FALSE, error |-> NoError, stmt |-> stmt]

Thrown(error) == [threw |-> TRUE, error |-> error, stmt |-> [text |-> <<>>, params |-> <<>>]]

\* the index (from 0) of the first entry whose column is falsy, or -1
FirstInvalid(entries) ==
    IF \E i \in 1..Len(entries) : getColumnName(entries[i][1]) = <<>>
    THEN (CHOOSE i \in 1..Len(entries) :
            /\ getColumnName(entries[i][1]) = <<>>
            /\ \A j \in 1..(i - 1) : getColumnName(entries[j][1]) # <<>>) - 1
    ELSE -1

\* getColumnMapping as it would be without its check of entries.length
getColumnMapping_NoEmptyCheck(data) ==
    LET entries == data
        conditions == [i \in 1..Len(entries) |->
                         Equals(getColumnName(entries[i][1]), (i - 1) + 1)]
        values == [i \in 1..Len(entries) |-> entries[i][2]]
    IN  IF FirstInvalid(entries) >= 0
        THEN [threw |-> TRUE, error |-> PlainError("Invalid column key"),
              whereClause |-> <<>>, values |-> <<>>]
        ELSE [threw |-> FALSE, error |-> NoError,
              whereClause |-> Join(conditions, "AND"), values |-> values]

getColumnMapping(data) ==
    LET entries == data
        conditions == [i \in 1..Len(entries) |->
                         Equals(getColumnName(entries[i][1]), (i - 1) + 1)]
        values == [i \in 1..Len(entries) |-> entries[i][2]]
    IN  IF Len(entries) = 0
        THEN [threw |-> TRUE, error |-> PlainError("Identifier object cannot be empty"),
              whereClause |-> <<>>, values |-> <<>>]
        ELSE IF FirstInvalid(entries) >= 0
        THEN [threw |-> TRUE, error |-> PlainError("Invalid column key"),
              whereClause |-> <<>>, values |-> <<>>]
        ELSE [threw |-> FALSE, error |-> NoError,
              whereClause |-> Join(conditions, "AND"), values |-> values]

getUpdateMapping(updates) ==
    [i \in 1..Len(updates) |->
        [column |-> getColumnName(updates[i][1]), value |-> updates[i][2]]]

\* the loop of buildFilterClause over the entries left, with the conditions,
\* the params and paramIndex so far
RECURSIVE filterLoop(_, _, _, _)
filterLoop(entries, conditions, params, paramIndex) ==
    IF entries = <<>>
    THEN [conditions |-> conditions, params |-> params]
    ELSE LET key == entries[1][1]
             value == entries[1][2]
             column == getColumnName(key)
         IN  IF value # Undefined /\ value # Null /\ column # <<>>
             THEN filterLoop(Tail(entries),
                             Append(conditions, Equals(column, paramIndex)),
                             Append(params, value),
                             paramIndex + 1)
             ELSE filterLoop(Tail(entries), conditions, params, paramIndex)

Tautology == <<Kw("1=1")>>

\* buildFilterClause as it would be if a condition took the number of its
\* entry (index + 1, as getColumnMapping does) instead of paramIndex
buildFilterClause_NumbersByEntry(filters) ==
    LET Keep(i) == filters[i][2] # Undefined /\ filters[i][2] # Null
                   /\ getColumnName(filters[i][1]) # <<>>
        kept == SelectSeq([i \in 1..Len(filters) |-> i], Keep)
        conditions == [j \in 1..Len(kept) |->
                         Equals(getColumnName(filters[kept[j]][1]), kept[j])]
    IN  [whereClause |-> IF Len(conditions) > 0
                         THEN Join(conditions, "AND")
                         ELSE Tautology,
         params |-> [j \in 1..Len(kept) |-> filters[kept[j]][2]]]

\* buildFilterClause as it would be if only undefined were skipped
buildFilterClause_KeepsNull(filters) ==
    LET Keep(i) == filters[i][2] # Undefined
                   /\ getColumnName(filters[i][1]) # <<>>
        kept == SelectSeq([i \in 1..Len(filters) |-> i], Keep)
        conditions == [j \in 1..Len(kept) |->
                         Equals(getColumnName(filters[kept[j]][1]), j)]
    IN  [whereClause |-> IF Len(conditions) > 0
                         THEN Join(conditions, "AND")
                         ELSE Tautology,
         params |-> [j \in 1..Len(kept) |-> filters[kept[j]][2]]]

buildFilterClause(filters) ==
    LET r == filterLoop(filters, <<>>, <<>>, 1)
    IN  [whereClause |-> IF Len(r.conditions) > 0
                         THEN Join(r.conditions, "AND")
                         ELSE Tautology,
         params |-> r.params]

\* filters ? this.buildFilterClause(filters) : { whereClause: "1=1", params: [] }
optionalFilterClause(filters) ==
    IF filters # <<>> THEN buildFilterClause(filters[1])
    ELSE [whereClause |-> Tautology, params |-> <<>>]

-----------------------------------------------------------------------------
(* The store: what db.query may answer.  The store is outside the layer: it
   may accept or reject any statement, and an accepted statement gets any
   answer of the shape its kind of statement has. *)

\* the rows of the table, under the column names of this configuration
StoreRows ==
    { [i \in 1..Len(EntityFields) |-> <<getColumnName(EntityFields[i]), vs[i]>>] :
        vs \in { <<"a", "b", "a">>, <<"b", Null, "b">> } }

RowSeqs(max) == UNION { [1..n -> StoreRows] : n \in 0..max }

\* SELECT * and RETURNING *: the rows, rowCount their number
RowAnswers(max) ==
    { [error |-> <<>>, rowCount |-> Len(rs), rows |-> rs] : rs \in RowSeqs(max) }

\* UPDATE and DELETE without RETURNING: the affected-row count
AffectedAnswers ==
    { [error |-> <<>>, rowCount |-> n, rows |-> <<>>] : n \in 0..MaxRows }

\* SELECT EXISTS(...) and SELECT COUNT(*): one row of one column
ScalarAnswers(column, values) ==
    { [error |-> <<>>, rowCount |-> 1, rows |-> << << <<column, v>> >> >>] : v \in values }

Rejections ==
    { [error |-> <<e>>, rowCount |-> 0, rows |-> <<>>] : e \in StoreErrors }

C_exists == <<"e","x","i","s","t","s">>
C_count == <<"c","o","u","n","t">>

Answers(op) ==
    CASE op \in {"find", "get", "createAndReturn", "upsert"} -> RowAnswers(1)
      [] op \in {"updateAndReturn", "findAll", "getAll", "raw"} -> RowAnswers(MaxRows)
      [] op \in {"update", "delete", "updateAll", "deleteAll", "create", "drop"}
            -> AffectedAnswers
      [] op = "truncate" -> {[error |-> <<>>, rowCount |-> 0, rows |-> <<>>]}
      [] op = "exists" -> ScalarAnswers(C_exists, {"true", "false"})
      [] op = "count" -> ScalarAnswers(C_count, CountValues)
      [] OTHER -> {}

\* catch (error) { logger.error(...); throw error; }
Rethrow(r) == Throw(r.error[1])

-----------------------------------------------------------------------------
(* Single entity operations: the statement each hands to db.query, and what
   it gives the caller once the store has answered *)

findQuery(identifier) ==
    LET m == getColumnMapping(identifier)
    IN  IF m.threw THEN Thrown(m.error)
        ELSE Built([text |-> <<Kw("SELECT * FROM"), Ident(table), Kw("WHERE")>>
                             \o m.whereClause \o <<Kw("LIMIT 1")>>,
                    params |-> m.values])

findSettle(r) ==
    IF r.error # <<>> THEN Rethrow(r)
    ELSE IF r.rows # <<>> THEN ReturnEntity(<<mapRowToEntity(r.rows[1])>>)
         ELSE ReturnEntity(<<>>)

\* get as it would be without its check of find's result
getSettle_ReturnsNull(identifier, r) == findSettle(r)

getSettle(identifier, r) ==
    LET found == findSettle(r)
    IN  IF found.kind = "throw" THEN found
        ELSE IF found.entity = <<>> THEN Throw(createNotFoundError(table, identifier))
             ELSE ReturnEntity(found.entity)

existsQuery(identifier) ==
    LET m == getColumnMapping(identifier)
    IN  IF m.threw THEN Thrown(m.error)
        ELSE Built([text |-> <<Kw("SELECT EXISTS(SELECT 1 FROM"), Ident(table), Kw("WHERE")>>
                             \o m.whereClause \o <<Kw(")")>>,
                    params |-> m.values])

existsSettle(r) ==
    IF r.error # <<>> THEN Rethrow(r)
    ELSE IF r.rows = <<>> THEN Throw(TypeError)
         ELSE ReturnValue(IF HasKey(r.rows[1], C_exists) /\ Truthy(Lookup(r.rows[1], C_exists))
                          THEN "true" ELSE "false")

\* update as it would be if the SET placeholders were numbered from $1
updateQuery_SetFromOne(identifier, updates) ==
    LET m == getColumnMapping(identifier)
        identifierValues == m.values
        updateMappings == getUpdateMapping(updates)
        setClauses == [i \in 1..Len(updateMappings) |->
                         Equals(updateMappings[i].column, (i - 1) + 1)]
        params == identifierValues
                  \o [i \in 1..Len(updateMappings) |-> updateMappings[i].value]
    IN  IF m.threw THEN Thrown(m.error)
        ELSE Built([text |-> <<Kw("UPDATE"), Ident(table), Kw("SET")>>
                             \o Join(setClauses, ",")
                             \o <<Kw("WHERE")>> \o m.whereClause,
                    params |-> params])

updateQuery(identifier, updates) ==
    LET m == getColumnMapping(identifier)
        identifierValues == m.values
        updateMappings == getUpdateMapping(updates)
        setClauses == [i \in 1..Len(updateMappings) |->
                         Equals(updateMappings[i].column,
                                Len(identifierValues) + (i - 1) + 1)]
        params == identifierValues
                  \o [i \in 1..Len(updateMappings) |-> updateMappings[i].value]
    IN  IF m.threw THEN Thrown(m.error)
        ELSE Built([text |-> <<Kw("UPDATE"), Ident(table), Kw("SET")>>
                             \o Join(setClauses, ",")
                             \o <<Kw("WHERE")>> \o m.whereClause,
                    params |-> params])

\* update as it would be without its check of result.rowCount
updateSettle_IgnoresRowCount(identifier, r) ==
    IF r.error # <<>> THEN Rethrow(r) ELSE Return

updateSettle(identifier, r) ==
    IF r.error # <<>> THEN Rethrow(r)
    ELSE IF r.rowCount = 0 THEN Throw(createNotFoundError(table, identifier))
         ELSE Return

updateAndReturnQuery(identifier, updates) ==
    LET m == getColumnMapping(identifier)
        identifierValues == m.values
        updateMappings == getUpdateMapping(updates)
        setClauses == [i \in 1..Len(updateMappings) |->
                         Equals(updateMappings[i].column,
                                Len(identifierValues) + (i - 1) + 2)]
        params == identifierValues
                  \o [i \in 1..Len(updateMappings) |-> updateMappings[i].value]
    IN  IF m.threw THEN Thrown(m.error)
        ELSE Built([text |-> <<Kw("UPDATE"), Ident(table), Kw("SET")>>
                             \o Join(setClauses, ",")
                             \o <<Kw("WHERE")>> \o m.whereClause
                             \o <<Kw("RETURNING *")>>,
                    params |-> params])

updateAndReturnSettle(identifier, r) ==
    IF r.error # <<>> THEN Rethrow(r)
    ELSE IF r.rowCount = 0 THEN Throw(createNotFoundError(table, identifier))
         ELSE IF r.rows = <<>> THEN Throw(TypeError)
              ELSE ReturnEntity(<<mapRowToEntity(r.rows[1])>>)

deleteQuery(identifier) ==
    LET m == getColumnMapping(identifier)
    IN  IF m.threw THEN Thrown(m.error)
        ELSE Built([text |-> <<Kw("DELETE FROM"), Ident(table), Kw("WHERE")>>
                             \o m.whereClause,
                    params |-> m.values])

deleteSettle(identifier, r) ==
    IF r.error # <<>> THEN Rethrow(r)
    ELSE IF r.rowCount = 0 THEN Throw(createNotFoundError(table, identifier))
         ELSE Return

-----------------------------------------------------------------------------
(* Multiple entity operations *)

NoOptions == [limit |-> Undefined, offset |-> Undefined, orderBy |-> <<>>,
              orderDirection |-> Undefined]

\* the options of findAll; no options object at all behaves as NoOptions
Options ==
    [limit : {Undefined, "0", "2"}, offset : {Undefined, "0", "1"},
     orderBy : {<<>>, <<F_channelId>>}, orderDirection : {Undefined, "ASC", "DESC"}]

\* findAll as it would be if OFFSET took the number after the filter parameters
\* whether or not a LIMIT was bound before it
findAllQuery_OffsetAfterFilters(filters, options) ==
    LET f == optionalFilterClause(filters)
        q0 == <<Kw("SELECT * FROM"), Ident(table), Kw("WHERE")>> \o f.whereClause
        q1 == IF options.orderBy # <<>> /\ options.orderBy[1] # <<>>
              THEN q0 \o <<Kw("ORDER BY"), Ident(getColumnName(options.orderBy[1])),
                           Kw(IF Truthy(options.orderDirection)
                              THEN options.orderDirection ELSE "ASC")>>
              ELSE q0
        p1 == f.params
        q2 == IF Truthy(options.limit)
              THEN q1 \o <<Kw("LIMIT"), Placeholder(Len(p1) + 1)>> ELSE q1
        p2 == IF Truthy(options.limit) THEN Append(p1, options.limit) ELSE p1
        q3 == IF Truthy(options.offset)
              THEN q2 \o <<Kw("OFFSET"), Placeholder(Len(p1) + 1)>> ELSE q2
        p3 == IF Truthy(options.offset) THEN Append(p2, options.offset) ELSE p2
    IN  Built([text |-> q3, params |-> p3])

findAllQuery(filters, options) ==
    LET f == optionalFilterClause(filters)
        q0 == <<Kw("SELECT * FROM"), Ident(table), Kw("WHERE")>> \o f.whereClause
        q1 == IF options.orderBy # <<>> /\ options.orderBy[1] # <<>>
              THEN q0 \o <<Kw("ORDER BY"), Ident(getColumnName(options.orderBy[1])),
                           Kw(IF Truthy(options.orderDirection)
                              THEN options.orderDirection ELSE "ASC")>>
              ELSE q0
        p1 == f.params
        q2 == IF Truthy(options.limit)
              THEN q1 \o <<Kw("LIMIT"), Placeholder(Len(p1) + 1)>> ELSE q1
        p2 == IF Truthy(options.limit) THEN Append(p1, options.limit) ELSE p1
        q3 == IF Truthy(options.offset)
              THEN q2 \o <<Kw("OFFSET"), Placeholder(Len(p2) + 1)>> ELSE q2
        p3 == IF Truthy(options.offset) THEN Append(p2, options.offset) ELSE p2
    IN  Built([text |-> q3, params |-> p3])

findAllSettle(r) ==
    IF r.error # <<>> THEN Rethrow(r)
    ELSE ReturnEntities(mapRowsToEntities(r.rows))

\* return this.findAll(undefined, options)
getAllQuery(options) == findAllQuery(<<>>, options)

getAllSettle(r) == findAllSettle(r)

updateAllQuery(updates, filters) ==
    LET f == optionalFilterClause(filters)
        updateMappings == getUpdateMapping(updates)
        setClauses == [i \in 1..Len(updateMappings) |->
                         Equals(updateMappings[i].column, Len(f.params) + (i - 1) + 1)]
        allParams == f.params
                     \o [i \in 1..Len(updateMappings) |-> updateMappings[i].value]
    IN  Built([text |-> <<Kw("UPDATE"), Ident(table), Kw("SET")>>
                        \o Join(setClauses, ",")
                        \o <<Kw("WHERE")>> \o f.whereClause,
               params |-> allParams])

\* updateAll as it would be if its catch returned 0 instead of rethrowing
updateAllSettle_ZeroOnFailure(r) ==
    IF r.error # <<>> THEN ReturnCount(0) ELSE ReturnCount(r.rowCount)

\* return result.rowCount || 0
updateAllSettle(r) ==
    IF r.error # <<>> THEN Rethrow(r) ELSE ReturnCount(r.rowCount)

\* deleteAll as it would be without its check of the filters
deleteAllQuery_NoGuard(filters) ==
    LET f == optionalFilterClause(filters)
    IN  Built([text |-> <<Kw("DELETE FROM"), Ident(table), Kw("WHERE")>>
                        \o f.whereClause,
               params |-> f.params])

deleteAllQuery(filters) ==
    IF filters = <<>> \/ Len(filters[1]) = 0
    THEN Thrown(PlainError("deleteAll requires at least one filter"))
    ELSE LET f == buildFilterClause(filters[1])
         IN  Built([text |-> <<Kw("DELETE FROM"), Ident(table), Kw("WHERE")>>
                             \o f.whereClause,
                    params |-> f.params])

deleteAllSettle(r) ==
    IF r.error # <<>> THEN Rethrow(r) ELSE ReturnCount(r.rowCount)

\* `DELETE FROM ${this.table}`, handed to db.query without parameters
dropQuery == Built([text |-> <<Kw("DELETE FROM"), Ident(table)>>, params |-> <<>>])

\* return result.rowCount || 0
dropSettle(r) ==
    IF r.error # <<>> THEN Rethrow(r) ELSE ReturnCount(r.rowCount)

NoTruncateOptions == [cascade |-> Undefined, restartIdentity |-> Undefined]

TruncateOptions == [cascade : {Undefined, "true"}, restartIdentity : {Undefined, "true"}]

truncateQuery(options) ==
    LET q0 == <<Kw("TRUNCATE TABLE"), Ident(table)>>
        q1 == IF Truthy(options.restartIdentity)
              THEN q0 \o <<Kw("RESTART IDENTITY")>> ELSE q0
        q2 == IF Truthy(options.cascade) THEN q1 \o <<Kw("CASCADE")>> ELSE q1
    IN  Built([text |-> q2, params |-> <<>>])

truncateSettle(r) ==
    IF r.error # <<>> THEN Rethrow(r) ELSE Return

countQuery(filters) ==
    LET f == optionalFilterClause(filters)
    IN  Built([text |-> <<Kw("SELECT COUNT(*) FROM"), Ident(table), Kw("WHERE")>>
                        \o f.whereClause,
               params |-> f.params])

\* return result.rows[0].count ?? 0
countSettle(r) ==
    IF r.error # <<>> THEN Rethrow(r)
    ELSE IF r.rows = <<>> THEN Throw(TypeError)
         ELSE LET c == IF HasKey(r.rows[1], C_count)
                       THEN Lookup(r.rows[1], C_count) ELSE Undefined
              IN  ReturnValue(IF c \in {Undefined, Null} THEN "0" ELSE c)

\* the statements a caller hands to raw, text and parameters as they are
RawStatements ==
    { [text |-> <<Kw("SELECT 1")>>, params |-> <<>>],
      [text |-> <<Kw("SELECT * FROM"), Ident(table), Kw("WHERE"), Ident(F_id),
                  Kw("<>"), Placeholder(1)>>,
       params |-> <<"a">>] }

NoStatement == [text |-> <<>>, params |-> <<>>]

rawQuery(stmt) == Built(stmt)

rawSettle(r) ==
    IF r.error # <<>> THEN Rethrow(r)
    ELSE ReturnEntities(mapRowsToEntities(r.rows))

-----------------------------------------------------------------------------
(* Insert operations *)

CreateFields == {F_id, F_channelId, F_status}

Creates == Mappings(CreateFields, Values)

\* the conflictTarget argument of upsert: one key, or an array of keys
NoTarget == [isArray |-> FALSE, keys |-> <<>>]

ConflictTargets ==
    { [isArray |-> FALSE, keys |-> <<F_id>>],
      [isArray |-> TRUE, keys |-> <<F_channelId>>],
      [isArray |-> TRUE, keys |-> <<F_channelId, F_id>>] }

\* the optional updateFields argument of upsert: not given, or an array of keys
UpdateFieldLists ==
    { <<>>, << <<>> >>, << <<F_status>> >>, << <<F_channelId, F_status>> >> }

\* getCreateMapping as it would be if the entries were read last to first
getCreateMapping_Reversed(data) ==
    [i \in 1..Len(data) |->
        [column |-> getColumnName(data[Len(data) + 1 - i][1]), value |-> data[i][2]]]

getCreateMapping(data) ==
    [i \in 1..Len(data) |->
        [column |-> getColumnName(data[i][1]), value |-> data[i][2]]]

\* createMappings.map((m) => m.column).join(", ")
insertColumns(createMappings) ==
    Join([i \in 1..Len(createMappings) |-> <<Ident(createMappings[i].column)>>], ",")

\* createMappings.map((_, index) => `$${index + 1}`).join(", ")
insertPlaceholders(createMappings) ==
    Join([i \in 1..Len(createMappings) |-> <<Placeholder((i - 1) + 1)>>], ",")

insertValues(createMappings) ==
    [i \in 1..Len(createMappings) |-> createMappings[i].value]

\* create as it would be if the values were written into the VALUES list
createQuery_InlinesValues(data) ==
    LET createMappings == getCreateMapping(data)
    IN  Built([text |-> <<Kw("INSERT INTO"), Ident(table), Kw("(")>>
                        \o insertColumns(createMappings)
                        \o <<Kw(") VALUES (")>>
                        \o Join([i \in 1..Len(createMappings) |->
                                    <<Kw(createMappings[i].value)>>], ",")
                        \o <<Kw(")")>>,
               params |-> <<>>])

createQuery(data) ==
    LET createMappings == getCreateMapping(data)
    IN  Built([text |-> <<Kw("INSERT INTO"), Ident(table), Kw("(")>>
                        \o insertColumns(createMappings)
                        \o <<Kw(") VALUES (")>>
                        \o insertPlaceholders(createMappings)
                        \o <<Kw(")")>>,
               params |-> insertValues(createMappings)])

createSettle(r) ==
    IF r.error # <<>> THEN Rethrow(r) ELSE Return

createAndReturnQuery(data) ==
    LET createMappings == getCreateMapping(data)
    IN  Built([text |-> <<Kw("INSERT INTO"), Ident(table), Kw("(")>>
                        \o insertColumns(createMappings)
                        \o <<Kw(") VALUES (")>>
                        \o insertPlaceholders(createMappings)
                        \o <<Kw(") RETURNING *")>>,
               params |-> insertValues(createMappings)])

\* return this.mapRowToEntity(result.rows[0]), inside the try
createAndReturnSettle(r) ==
    IF r.error # <<>> THEN Rethrow(r)
    ELSE IF r.rows = <<>> THEN Throw(TypeError)
         ELSE ReturnEntity(<<mapRowToEntity(r.rows[1])>>)

\* `${col} = EXCLUDED.${col}`
Excluded(col) == <<Ident(col), Kw("= EXCLUDED."), Ident(col)>>

\* upsert as it would be if DO UPDATE SET always listed the inserted columns
upsertQuery_IgnoresUpdateFields(data, conflictTarget, updateFields) ==
    LET createMappings == getCreateMapping(data)
        conflictColumns ==
            Join([i \in 1..Len(conflictTarget.keys) |->
                    <<Ident(getColumnName(conflictTarget.keys[i]))>>], ",")
        fieldsToUpdate == [i \in 1..Len(createMappings) |-> createMappings[i].column]
        updateClause == Join([i \in 1..Len(fieldsToUpdate) |->
                                Excluded(fieldsToUpdate[i])], ",")
    IN  Built([text |-> <<Kw("INSERT INTO"), Ident(table), Kw("(")>>
                        \o insertColumns(createMappings)
                        \o <<Kw(") VALUES (")>>
                        \o insertPlaceholders(createMappings)
                        \o <<Kw(") ON CONFLICT (")>>
                        \o conflictColumns
                        \o <<Kw(") DO UPDATE SET")>>
                        \o updateClause
                        \o <<Kw("RETURNING *")>>,
               params |-> insertValues(createMappings)])

upsertQuery(data, conflictTarget, updateFields) ==
    LET createMappings == getCreateMapping(data)
        \* an array is mapped and joined, a single key is resolved as it is
        conflictColumns ==
            IF conflictTarget.isArray
            THEN Join([i \in 1..Len(conflictTarget.keys) |->
                         <<Ident(getColumnName(conflictTarget.keys[i]))>>], ",")
            ELSE <<Ident(getColumnName(conflictTarget.keys[1]))>>
        \* an array, also an empty one, is truthy
        fieldsToUpdate ==
            IF updateFields # <<>>
            THEN [i \in 1..Len(updateFields[1]) |-> getColumnName(updateFields[1][i])]
            ELSE [i \in 1..Len(createMappings) |-> createMappings[i].column]
        updateClause == Join([i \in 1..Len(fieldsToUpdate) |->
                                Excluded(fieldsToUpdate[i])], ",")
    IN  Built([text |-> <<Kw("INSERT INTO"), Ident(table), Kw("(")>>
                        \o insertColumns(createMappings)
                        \o <<Kw(") VALUES (")>>
                        \o insertPlaceholders(createMappings)
                        \o <<Kw(") ON CONFLICT (")>>
                        \o conflictColumns
                        \o <<Kw(") DO UPDATE SET")>>
                        \o updateClause
                        \o <<Kw("RETURNING *")>>,
               params |-> insertValues(createMappings)])

upsertSettle(r) ==
    IF r.error # <<>> THEN Rethrow(r)
    ELSE IF r.rows = <<>> THEN Throw(TypeError)
         ELSE ReturnEntity(<<mapRowToEntity(r.rows[1])>>)

-----------------------------------------------------------------------------
(* The calls *)

NoCall == [op |-> "none", identifier |-> <<>>, updates |-> <<>>, filters |-> <<>>,
           options |-> NoOptions, data |-> <<>>, conflictTarget |-> NoTarget,
           updateFields |-> <<>>, truncateOptions |-> NoTruncateOptions,
           statement |-> NoStatement, client |-> NoClient]

-----------------------------------------------------------------------------
(* The cooldown manager (discord/utils/cooldown/cooldown-manager.ts).  A Map
   is a function on the set of its keys; `cooldowns` maps a command name to
   the identity of its inner Map and `maps` gives each live Map its entries,
   so that a timer, which closes over the Map object it was created for,
   keeps that object when the manager has replaced it.  A cooldown key is
   the sequence of its characters.  An absent guild id (null) is the empty
   sequence, which is falsy like null.  A return value of number | null is a
   sequence of length 0 (null) or 1: check's is checkReturn.  The clock
   moves a second at a time, so
   that every time is a whole number of seconds in milliseconds. *)

MsPerSecond == 1000

Commands == { <<"p">>, <<"q">> }

CooldownType == {"user", "global", "channel", "guild"}

\* a cooldown lasts two seconds, so that the clock can move within it
Durations == {2}

CooldownConfigs == [duration : Durations, type : CooldownType]

CooldownContext(userId, channelId, guildId) ==
    [userId |-> userId, channelId |-> channelId, guildId |-> guildId]

\* two users, two channels, one guild and a direct message (no guild)
Contexts ==
    { CooldownContext(<<"1">>, <<"7">>, <<"5">>),
      CooldownContext(<<"1", "2">>, <<"8">>, <<"5">>),
      CooldownContext(<<"1", "2">>, <<"7">>, <<>>) }

W_user == <<":", "u", "s", "e", "r", ":">>
W_global == <<":", "g", "l", "o", "b", "a", "l">>
W_channel == <<":", "c", "h", "a", "n", "n", "e", "l", ":">>
W_guild == <<":", "g", "u", "i", "l", "d", ":">>

getKey(commandName, type, interaction) ==
    CASE type = "user" -> commandName \o W_user \o interaction.userId
      [] type = "global" -> commandName \o W_global
      [] type = "channel" -> commandName \o W_channel \o interaction.channelId
      [] type = "guild" ->
            IF interaction.guildId # <<>>
            THEN commandName \o W_guild \o interaction.guildId
            ELSE commandName \o W_user \o interaction.userId
      [] OTHER -> commandName \o W_user \o interaction.userId

\* new Map()
EmptyMap == [k \in {} |-> {}]

\* map.set(key, value)
MapSet(map, key, value) ==
    [k \in DOMAIN map \cup {key} |-> IF k = key THEN value ELSE map[k]]

\* map.delete(key)
MapDelete(map, key) == [k \in DOMAIN map \ {key} |-> map[k]]

\* the identity of the next Map object
NewMap ==
    CHOOSE m \in 1..(Cardinality(DOMAIN maps) + 1) :
        /\ m \notin DOMAIN maps
        /\ \A i \in 1..(m - 1) : i \in DOMAIN maps

\* the Map objects that cooldowns or a pending timer still holds
Alive(cds, mps, tms) ==
    LET held == { cds[c] : c \in DOMAIN cds } \cup { t.map : t \in tms }
    IN  [m \in DOMAIN mps \cap held |-> mps[m]]

\* if (!this.cooldowns.has(commandName)) this.cooldowns.set(commandName, new Map())
withMapOf(commandName) ==
    IF commandName \in DOMAIN cooldowns
    THEN [cooldowns |-> cooldowns, maps |-> maps]
    ELSE [cooldowns |-> MapSet(cooldowns, commandName, NewMap),
          maps |-> MapSet(maps, NewMap, EmptyMap)]

\* a command module: its cooldown, if it has one
CommandModule(cooldown) == [cooldown |-> cooldown]

\* no command has a cooldown
NoCommandCooldowns == commandHandlers = [c \in Commands |-> CommandModule(<<>>)]

\* command.cooldown, with the roles and the users that bypass it
Cooldown(type, bypassRoles, bypassUsers) ==
    <<[duration |-> CHOOSE d \in Durations : TRUE, type |-> type,
       bypassRoles |-> bypassRoles, bypassUsers |-> bypassUsers]>>

\* the registrations of the two commands considered for the manager alone
CommandHandlers ==
    { (<<"p">> :> CommandModule(Cooldown("user", {}, {})))
        @@ (<<"q">> :> CommandModule(Cooldown("guild", {}, {}))),
      (<<"p">> :> CommandModule(Cooldown("global", {}, {})))
        @@ (<<"q">> :> CommandModule(Cooldown("channel", {}, {}))) }

NoCooldowns ==
    /\ cooldowns = EmptyMap
    /\ maps = EmptyMap
    /\ timers = {}
    /\ now = 0
    /\ history = <<>>

\* check as it would be if it reported the time left without testing it
checkReturn_IgnoresExpiry(commandName, cfg, interaction) ==
    LET key == getKey(commandName, cfg.type, interaction)
    IN  IF /\ commandName \in DOMAIN cooldowns
           /\ key \in DOMAIN maps[cooldowns[commandName]]
        THEN <<(maps[cooldowns[commandName]][key].expiresAt - now) \div MsPerSecond>>
        ELSE <<>>

\* what check returns in the current state
checkReturn(commandName, cfg, interaction) ==
    LET key == getKey(commandName, cfg.type, interaction)
    IN  IF /\ commandName \in DOMAIN cooldowns
           /\ key \in DOMAIN maps[cooldowns[commandName]]
           /\ now < maps[cooldowns[commandName]][key].expiresAt
        THEN <<(maps[cooldowns[commandName]][key].expiresAt - now) \div MsPerSecond>>
        ELSE <<>>

\* one call of check: what it does to the manager
checkCall(commandName, cfg, interaction) ==
    LET key == getKey(commandName, cfg.type, interaction)
        made == withMapOf(commandName)
        timestamps == made.cooldowns[commandName]
        entries == made.maps[timestamps]
    IN  /\ cooldowns' = made.cooldowns
        /\ maps' = IF key \in DOMAIN entries /\ ~(now < entries[key].expiresAt)
                   THEN [made.maps EXCEPT ![timestamps] = MapDelete(@, key)]
                   ELSE made.maps
        /\ UNCHANGED <<timers, now, history, commandHandlers>>

\* the commands that have a cooldown
WithCooldown == { c \in Commands : commandHandlers[c].cooldown # <<>> }

\* the cooldown of such a command, as the manager's CooldownConfig
cooldownOf(commandName) ==
    [duration |-> commandHandlers[commandName].cooldown[1].duration,
     type |-> commandHandlers[commandName].cooldown[1].type]

\* check is called with the command's own cooldown, as handleChatCommands does
check ==
    /\ \E commandName \in WithCooldown, interaction \in Contexts :
        checkCall(commandName, cooldownOf(commandName), interaction)
    /\ UNCHANGED <<queryVars, poolVars, namingVars, handlerVars>>

\* return this.check(commandName, { duration: 0, type }, interaction)
getRemainingReturn(commandName, type, interaction) ==
    checkReturn(commandName, [duration |-> 0, type |-> type], interaction)

getRemainingCall(commandName, type, interaction) ==
    checkCall(commandName, [duration |-> 0, type |-> type], interaction)

\* getRemaining and reset are asked about a command's cooldown with its type
getRemaining ==
    /\ \E commandName \in WithCooldown, interaction \in Contexts :
        getRemainingCall(commandName, cooldownOf(commandName).type, interaction)
    /\ UNCHANGED <<queryVars, poolVars, namingVars, handlerVars>>

\* set is called with the command's own cooldown, as handleChatCommands does
setCall(commandName, interaction) ==
    LET cfg == cooldownOf(commandName)
        key == getKey(commandName, cfg.type, interaction)
        made == withMapOf(commandName)
        timestamps == made.cooldowns[commandName]
        expiresAt == now + cfg.duration * MsPerSecond
    IN  /\ cooldowns' = made.cooldowns
        /\ maps' = [made.maps EXCEPT ![timestamps] =
                      MapSet(@, key, [expiresAt |-> expiresAt,
                                      userId |-> interaction.userId])]
        /\ timers' = timers \cup
                      { [id |-> Len(history) + 1, map |-> timestamps, key |-> key,
                         commandName |-> commandName,
                         due |-> now + cfg.duration * MsPerSecond] }
        /\ history' = Append(history,
                             [commandName |-> commandName, cfg |-> cfg,
                              interaction |-> interaction, expiresAt |-> expiresAt])

set ==
    /\ Len(history) < MaxSets
    /\ \E commandName \in WithCooldown, interaction \in Contexts :
        setCall(commandName, interaction)
    /\ UNCHANGED <<now, commandHandlers, queryVars, poolVars, namingVars, handlerVars>>

\* what reset returns in the current state
resetReturn(commandName, type, interaction) ==
    /\ commandName \in DOMAIN cooldowns
    /\ getKey(commandName, type, interaction) \in DOMAIN maps[cooldowns[commandName]]

resetCall(commandName, type, interaction) ==
    maps' = IF resetReturn(commandName, type, interaction)
            THEN [maps EXCEPT ![cooldowns[commandName]] =
                    MapDelete(@, getKey(commandName, type, interaction))]
            ELSE maps

reset ==
    /\ \E commandName \in WithCooldown, interaction \in Contexts :
        resetCall(commandName, cooldownOf(commandName).type, interaction)
    /\ UNCHANGED <<cooldowns, timers, now, history, commandHandlers,
                   queryVars, poolVars, namingVars, handlerVars>>

\* what resetCommand returns in the current state: this.cooldowns.delete(commandName)
resetCommandReturn(commandName) == commandName \in DOMAIN cooldowns

resetCommandCall(commandName) ==
    /\ cooldowns' = MapDelete(cooldowns, commandName)
    /\ maps' = Alive(MapDelete(cooldowns, commandName), maps, timers)
    /\ UNCHANGED <<timers, now, history, commandHandlers,
                   queryVars, poolVars, namingVars, handlerVars>>

resetCommand == \E commandName \in Commands : resetCommandCall(commandName)

\* key.includes(part)
Includes(key, part) ==
    \E i \in 0..(Len(key) - Len(part)) :
        \A j \in 1..Len(part) : key[i + j] = part[j]

\* the keys of one inner Map that resetUser deletes
resetUserKeys(entries, userId) ==
    { key \in DOMAIN entries :
        \/ entries[key].userId = userId
        \/ Includes(key, W_user \o userId) }

RECURSIVE SumOver(_, _)
SumOver(counts, S) ==
    IF S = {} THEN 0
    ELSE LET x == CHOOSE y \in S : TRUE IN counts[x] + SumOver(counts, S \ {x})

\* what resetUser returns in the current state
resetUserReturn(userId) ==
    SumOver([c \in DOMAIN cooldowns |->
                Cardinality(resetUserKeys(maps[cooldowns[c]], userId))],
            DOMAIN cooldowns)

resetUserCall(userId) ==
    LET swept == [m \in DOMAIN maps |->
                    IF \E c \in DOMAIN cooldowns : cooldowns[c] = m
                    THEN [key \in DOMAIN maps[m] \ resetUserKeys(maps[m], userId)
                            |-> maps[m][key]]
                    ELSE maps[m]]
        kept == { c \in DOMAIN cooldowns : DOMAIN swept[cooldowns[c]] # {} }
        cds == [c \in kept |-> cooldowns[c]]
    IN  /\ cooldowns' = cds
        /\ maps' = Alive(cds, swept, timers)
        /\ UNCHANGED <<timers, now, history, commandHandlers,
                       queryVars, poolVars, namingVars, handlerVars>>

Users == { interaction.userId : interaction \in Contexts }

resetUser == \E userId \in Users : resetUserCall(userId)

\* the callback that set() gave to setTimeout runs
TimerFires ==
    /\ \E t \in timers :
        /\ now >= t.due
        /\ LET emptied == MapDelete(maps[t.map], t.key)
               cds == IF DOMAIN emptied = {}
                      THEN MapDelete(cooldowns, t.commandName) ELSE cooldowns
           IN  /\ timers' = timers \ {t}
               /\ cooldowns' = cds
               /\ maps' = Alive(cds, [maps EXCEPT ![t.map] = emptied], timers \ {t})
    /\ UNCHANGED <<now, history, commandHandlers, queryVars, poolVars, namingVars, handlerVars>>

\* a second passes; a callback that is due runs before the next second does
Tick ==
    /\ now < MaxNow * MsPerSecond
    /\ \A t \in timers : t.due > now
    /\ now' = now + MsPerSecond
    /\ UNCHANGED <<cooldowns, maps, timers, history, commandHandlers,
                   queryVars, poolVars, namingVars, handlerVars>>

-----------------------------------------------------------------------------
(* The interaction handler (discord/bots/main/handlers/interaction-handler.ts).
   handleChatCommands runs up to its await of command.execute in one step,
   and from there to its end in another, when the execution has resolved or
   rejected; between the two, other interactions are handled and time
   passes.  `handling` keeps, for every interaction, what the handler did. *)

\* a chat input interaction: who sent it, where, and the roles of the member
ChatInput(userId, channelId, guildId, memberRoles) ==
    [userId |-> userId, channelId |-> channelId, guildId |-> guildId,
     memberRoles |-> memberRoles]

ChatInputs ==
    { ChatInput(<<"1">>, <<"7">>, <<"5">>, {}),
      ChatInput(<<"1", "2">>, <<"8">>, <<"5">>, {"r"}),
      ChatInput(<<"1", "2">>, <<"7">>, <<>>, {"r"}) }

\* the context handleChatCommands gives to check and to set
contextOf(interaction) ==
    CooldownContext(interaction.userId, interaction.channelId, interaction.guildId)

\* canBypassCooldown as it would be without its list of users
canBypassCooldown_IgnoresUsers(interaction, command) ==
    IF command.cooldown = <<>> THEN TRUE
    ELSE interaction.guildId # <<>>
           /\ command.cooldown[1].bypassRoles \cap interaction.memberRoles # {}

canBypassCooldown(interaction, command) ==
    IF command.cooldown = <<>> THEN TRUE
    ELSE IF interaction.userId \in command.cooldown[1].bypassUsers THEN TRUE
    ELSE interaction.guildId # <<>>
           /\ command.cooldown[1].bypassRoles \cap interaction.memberRoles # {}

\* command.cooldown && !canBypassCooldown(interaction, command)
cooldownApplies(interaction, command) ==
    command.cooldown # <<>> /\ ~canBypassCooldown(interaction, command)

\* the interaction arrives: the cooldown is checked, and either the reply
\* says that the command is on cooldown or the execution starts
handleChatCommands ==
    /\ Len(handling) < MaxInteractions
    /\ \E commandName \in Commands, interaction \in ChatInputs :
        LET command == commandHandlers[commandName]
            applies == cooldownApplies(interaction, command)
            cooldownRemaining ==
                IF applies
                THEN checkReturn(commandName, cooldownOf(commandName),
                                 contextOf(interaction))
                ELSE <<>>
        IN  /\ IF applies
               THEN checkCall(commandName, cooldownOf(commandName),
                              contextOf(interaction))
               ELSE UNCHANGED cooldownVars
            /\ handling' = Append(handling,
                  [commandName |-> commandName, interaction |-> interaction,
                   pc |-> IF cooldownRemaining # <<>> THEN "replied" ELSE "executing",
                   checked |-> applies, cooldownRemaining |-> cooldownRemaining,
                   startedAt |-> IF cooldownRemaining # <<>> THEN <<>> ELSE <<now>>,
                   cooldownSet |-> FALSE])
    /\ UNCHANGED <<queryVars, poolVars, namingVars>>

\* await command.execute(interaction) resolves: the cooldown is set
ExecuteResolves ==
    /\ \E i \in 1..Len(handling) :
        /\ handling[i].pc = "executing"
        /\ LET applies == cooldownApplies(handling[i].interaction,
                                          commandHandlers[handling[i].commandName])
           IN  /\ IF applies
                  THEN /\ setCall(handling[i].commandName,
                                  contextOf(handling[i].interaction))
                       /\ UNCHANGED <<now, commandHandlers>>
                  ELSE UNCHANGED cooldownVars
               /\ handling' = [handling EXCEPT ![i].pc = "done",
                                               ![i].cooldownSet = applies]
    /\ UNCHANGED <<queryVars, poolVars, namingVars>>

\* await command.execute(interaction) rejects: the catch block replies
ExecuteRejects ==
    /\ \E i \in 1..Len(handling) :
        /\ handling[i].pc = "executing"
        /\ handling' = [handling EXCEPT ![i].pc = "failed"]
    /\ UNCHANGED <<queryVars, poolVars, cooldownVars, namingVars>>

-----------------------------------------------------------------------------
(* The pool *)

Sessions == 1..MaxSessions

\* a session in the pool that was never checked out
Pooled == [state |-> "pooled", log |-> <<>>]

AllPooled == sessions = [s \in Sessions |-> Pooled]

\* no call in progress
NoCallInProgress ==
    /\ pc = "idle"
    /\ call = NoCall
    /\ issued = <<>>
    /\ response = <<>>
    /\ outcome = Pending

\* no round trip of the naming transform in progress
\* handleChatCommands has not been called
NoInteractions == handling = <<>>

NoRoundTrip ==
    /\ domainEntity = <<>>
    /\ storageRow = <<>>
    /\ mappedEntity = <<>>

Init ==
    /\ COLUMN_MAP \in ColumnMaps
    /\ NoCallInProgress
    /\ AllPooled
    /\ NoCooldowns
    /\ NoCommandCooldowns
    /\ NoInteractions
    /\ NoRoundTrip

\* the synchronous part of a call, up to the await of db.query: a builder that
\* throws ends the call at once, otherwise the statement is with the store
Invoke(c, built) ==
    /\ call' = c
    /\ response' = <<>>
    /\ IF built.threw
       THEN /\ issued' = <<>>
            /\ outcome' = Throw(built.error)
            /\ pc' = "settled"
       ELSE /\ issued' = <<built.stmt>>
            /\ outcome' = Pending
            /\ pc' = "awaiting"
    /\ UNCHANGED <<COLUMN_MAP, poolVars, cooldownVars, namingVars, handlerVars>>

find ==
    /\ pc = "idle"
    /\ \E identifier \in Identifiers :
           Invoke([NoCall EXCEPT !.op = "find", !.identifier = identifier],
                  findQuery(identifier))

get ==
    /\ pc = "idle"
    /\ \E identifier \in Identifiers :
           Invoke([NoCall EXCEPT !.op = "get", !.identifier = identifier],
                  findQuery(identifier))

exists ==
    /\ pc = "idle"
    /\ \E identifier \in Identifiers :
           Invoke([NoCall EXCEPT !.op = "exists", !.identifier = identifier],
                  existsQuery(identifier))

update ==
    /\ pc = "idle"
    /\ \E identifier \in Identifiers, updates \in Updates :
           Invoke([NoCall EXCEPT !.op = "update", !.identifier = identifier,
                                 !.updates = updates],
                  updateQuery(identifier, updates))

updateAndReturn ==
    /\ pc = "idle"
    /\ \E identifier \in Identifiers, updates \in Updates :
           Invoke([NoCall EXCEPT !.op = "updateAndReturn", !.identifier = identifier,
                                 !.updates = updates],
                  updateAndReturnQuery(identifier, updates))

delete ==
    /\ pc = "idle"
    /\ \E identifier \in Identifiers :
           Invoke([NoCall EXCEPT !.op = "delete", !.identifier = identifier],
                  deleteQuery(identifier))

findAll ==
    /\ pc = "idle"
    /\ \E filters \in OptionalFilters, options \in Options :
           Invoke([NoCall EXCEPT !.op = "findAll", !.filters = filters,
                                 !.options = options],
                  findAllQuery(filters, options))

updateAll ==
    /\ pc = "idle"
    /\ \E updates \in Updates, filters \in OptionalFilters :
           Invoke([NoCall EXCEPT !.op = "updateAll", !.updates = updates,
                                 !.filters = filters],
                  updateAllQuery(updates, filters))

deleteAll ==
    /\ pc = "idle"
    /\ \E filters \in OptionalFilters :
           Invoke([NoCall EXCEPT !.op = "deleteAll", !.filters = filters],
                  deleteAllQuery(filters))

getAll ==
    /\ pc = "idle"
    /\ \E options \in Options :
           Invoke([NoCall EXCEPT !.op = "getAll", !.options = options],
                  getAllQuery(options))

count ==
    /\ pc = "idle"
    /\ \E filters \in OptionalFilters :
           Invoke([NoCall EXCEPT !.op = "count", !.filters = filters],
                  countQuery(filters))

drop ==
    /\ pc = "idle"
    /\ Invoke([NoCall EXCEPT !.op = "drop"], dropQuery)

truncate ==
    /\ pc = "idle"
    /\ \E options \in TruncateOptions :
           Invoke([NoCall EXCEPT !.op = "truncate", !.truncateOptions = options],
                  truncateQuery(options))

raw ==
    /\ pc = "idle"
    /\ \E stmt \in RawStatements :
           Invoke([NoCall EXCEPT !.op = "raw", !.statement = stmt], rawQuery(stmt))

create ==
    /\ pc = "idle"
    /\ \E data \in Creates :
           Invoke([NoCall EXCEPT !.op = "create", !.data = data], createQuery(data))

createAndReturn ==
    /\ pc = "idle"
    /\ \E data \in Creates :
           Invoke([NoCall EXCEPT !.op = "createAndReturn", !.data = data],
                  createAndReturnQuery(data))

upsert ==
    /\ pc = "idle"
    /\ \E data \in Creates, conflictTarget \in ConflictTargets,
          updateFields \in UpdateFieldLists :
           Invoke([NoCall EXCEPT !.op = "upsert", !.data = data,
                                 !.conflictTarget = conflictTarget,
                                 !.updateFields = updateFields],
                  upsertQuery(data, conflictTarget, updateFields))

\* the code after the await, by operation
Settle(c, r) ==
    CASE c.op = "find" -> findSettle(r)
      [] c.op = "get" -> getSettle(c.identifier, r)
      [] c.op = "exists" -> existsSettle(r)
      [] c.op = "update" -> updateSettle(c.identifier, r)
      [] c.op = "updateAndReturn" -> updateAndReturnSettle(c.identifier, r)
      [] c.op = "delete" -> deleteSettle(c.identifier, r)
      [] c.op = "findAll" -> findAllSettle(r)
      [] c.op = "getAll" -> getAllSettle(r)
      [] c.op = "updateAll" -> updateAllSettle(r)
      [] c.op = "deleteAll" -> deleteAllSettle(r)
      [] c.op = "count" -> countSettle(r)
      [] c.op = "drop" -> dropSettle(r)
      [] c.op = "truncate" -> truncateSettle(r)
      [] c.op = "raw" -> rawSettle(r)
      [] c.op = "create" -> createSettle(r)
      [] c.op = "createAndReturn" -> createAndReturnSettle(r)
      [] c.op = "upsert" -> upsertSettle(r)

\* the store answers the awaited statement and the call runs to its end
QueryResolves ==
    /\ pc = "awaiting"
    /\ \E r \in Answers(call.op) :
        /\ response' = <<r>>
        /\ outcome' = Settle(call, r)
    /\ pc' = "settled"
    /\ UNCHANGED <<COLUMN_MAP, call, issued, poolVars, cooldownVars, namingVars, handlerVars>>

\* the store rejects the awaited statement
QueryRejects ==
    /\ pc = "awaiting"
    /\ \E r \in Rejections :
        /\ response' = <<r>>
        /\ outcome' = Settle(call, r)
    /\ pc' = "settled"
    /\ UNCHANGED <<COLUMN_MAP, call, issued, poolVars, cooldownVars, namingVars, handlerVars>>

\* the caller has its result and is free to call again
CallEnds ==
    /\ pc = "settled"
    /\ pc' = "idle"
    /\ call' = NoCall
    /\ issued' = <<>>
    /\ response' = <<>>
    /\ outcome' = Pending
    /\ UNCHANGED <<COLUMN_MAP, poolVars, cooldownVars, namingVars, handlerVars>>

Next ==
    \/ find
    \/ get
    \/ exists
    \/ update
    \/ updateAndReturn
    \/ delete
    \/ findAll
    \/ getAll
    \/ updateAll
    \/ deleteAll
    \/ count
    \/ drop
    \/ truncate
    \/ raw
    \/ create
    \/ createAndReturn
    \/ upsert
    \/ QueryResolves
    \/ QueryRejects
    \/ CallEnds

Spec == Init /\ [][Next]_vars

-----------------------------------------------------------------------------
(* Transactions: begin() takes a session out of the pool, sends BEGIN on it
   and hands it to the caller, who sends statements on it and releases it.
   A session is "pooled", "acquired" (checked out by begin) or "returned"
   (handed to the caller); its log is what was sent on it and by whom since
   it was last checked out, the release included. *)

ByLayer(text) == [by |-> "layer", text |-> text]

ByCaller(text) == [by |-> "caller", text |-> text]

\* const client = await this.db.connect()
checkOut(session) == [state |-> "acquired", log |-> <<>>]

\* begin as it would be if it committed right after BEGIN
beginOnClient_Commits(session) ==
    [session EXCEPT !.log = @ \o <<ByLayer("BEGIN"), ByLayer("COMMIT")>>]

\* client.query("BEGIN")
beginOnClient(session) == [session EXCEPT !.log = Append(@, ByLayer("BEGIN"))]

\* return client
handOver(session) == [session EXCEPT !.state = "returned"]

\* what the caller may send on a session it holds
ClientStatements == {"COMMIT", "ROLLBACK"}

SentByCaller(session) ==
    Len(SelectSeq(session.log, LAMBDA entry : entry.by = "caller"))

begin ==
    /\ pc = "idle"
    /\ pc' = "connecting"
    /\ call' = [NoCall EXCEPT !.op = "begin"]
    /\ issued' = <<>>
    /\ response' = <<>>
    /\ outcome' = Pending
    /\ UNCHANGED <<COLUMN_MAP, poolVars, cooldownVars, namingVars, handlerVars>>

\* the pool hands out a session; begin sends BEGIN on it and awaits the answer
ConnectResolves ==
    /\ pc = "connecting"
    /\ \E s \in Sessions :
        /\ sessions[s].state = "pooled"
        /\ sessions' = [sessions EXCEPT ![s] = beginOnClient(checkOut(@))]
        /\ call' = [call EXCEPT !.client = s]
    /\ pc' = "beginning"
    /\ UNCHANGED <<COLUMN_MAP, issued, response, outcome, cooldownVars, namingVars, handlerVars>>

\* the pool fails to hand out a session: begin has no catch, the error is the
\* caller's
ConnectRejects ==
    /\ pc = "connecting"
    /\ \E e \in StoreErrors : outcome' = Throw(e)
    /\ pc' = "settled"
    /\ UNCHANGED <<COLUMN_MAP, call, issued, response, poolVars, cooldownVars,
                   namingVars, handlerVars>>

BeginResolves ==
    /\ pc = "beginning"
    /\ sessions' = [sessions EXCEPT ![call.client] = handOver(@)]
    /\ outcome' = ReturnClient(call.client)
    /\ pc' = "settled"
    /\ UNCHANGED <<COLUMN_MAP, call, issued, response, cooldownVars, namingVars, handlerVars>>

\* BEGIN fails: the error is the caller's and the client is dropped as it is
BeginRejects ==
    /\ pc = "beginning"
    /\ \E e \in StoreErrors : outcome' = Throw(e)
    /\ pc' = "settled"
    /\ UNCHANGED <<COLUMN_MAP, call, issued, response, poolVars, cooldownVars,
                   namingVars, handlerVars>>

\* the caller sends a statement on a session it was handed
ClientQuery ==
    /\ pc = "idle"
    /\ \E s \in Sessions, text \in ClientStatements :
        /\ sessions[s].state = "returned"
        /\ SentByCaller(sessions[s]) < MaxClientStatements
        /\ sessions' = [sessions EXCEPT ![s].log = Append(@, ByCaller(text))]
    /\ UNCHANGED <<queryVars, cooldownVars, namingVars, handlerVars>>

\* the caller gives a session it was handed back to the pool
ClientRelease ==
    /\ pc = "idle"
    /\ \E s \in Sessions :
        /\ sessions[s].state = "returned"
        /\ sessions' = [sessions EXCEPT ![s] =
                           [state |-> "pooled",
                            log |-> Append(@.log, ByCaller("release"))]]
    /\ UNCHANGED <<queryVars, cooldownVars, namingVars, handlerVars>>

TransactionNext ==
    \/ begin
    \/ ConnectResolves
    \/ ConnectRejects
    \/ BeginResolves
    \/ BeginRejects
    \/ CallEnds
    \/ ClientQuery
    \/ ClientRelease

TransactionSpec == Init /\ [][TransactionNext]_vars

-----------------------------------------------------------------------------
(* The cooldown manager on its own, with the clock and the timers: first
   with the calls that ask about cooldowns and start them, then with the
   calls that reset them as well *)

CooldownNext ==
    \/ check
    \/ set
    \/ getRemaining
    \/ TimerFires
    \/ Tick

ManagerNext ==
    \/ check
    \/ set
    \/ reset
    \/ resetCommand
    \/ resetUser
    \/ getRemaining
    \/ TimerFires
    \/ Tick

CooldownInit ==
    /\ COLUMN_MAP = <<>>
    /\ NoCallInProgress
    /\ AllPooled
    /\ NoCooldowns
    /\ commandHandlers \in CommandHandlers
    /\ NoInteractions
    /\ NoRoundTrip

CooldownSpec == CooldownInit /\ [][CooldownNext]_vars

ManagerSpec == CooldownInit /\ [][ManagerNext]_vars

-----------------------------------------------------------------------------
(* The interaction handler with the cooldown manager, the clock and the
   timers *)

\* the registrations considered: a cooldown that a role, or a user,
\* bypasses, next to a command without a cooldown and one with
GuardedCommandHandlers ==
    { (<<"p">> :> CommandModule(Cooldown("user", {"r"}, {})))
        @@ (<<"q">> :> CommandModule(<<>>)),
      (<<"p">> :> CommandModule(Cooldown("user", {}, {<<"1">>})))
        @@ (<<"q">> :> CommandModule(Cooldown("guild", {}, {}))) }

HandlerNext ==
    \/ handleChatCommands
    \/ ExecuteResolves
    \/ ExecuteRejects
    \/ TimerFires
    \/ Tick

HandlerInit ==
    /\ COLUMN_MAP = <<>>
    /\ NoCallInProgress
    /\ AllPooled
    /\ NoCooldowns
    /\ commandHandlers \in GuardedCommandHandlers
    /\ NoInteractions
    /\ NoRoundTrip

HandlerSpec == HandlerInit /\ [][HandlerNext]_vars

-----------------------------------------------------------------------------
(* The naming transform on its own: an entity is written out as the storage
   row of its columns and values, and that row is mapped back *)

\* longest field name of a round trip
MaxNameLen == 2

NameChars == {"a", "B", "_"}

Names == UNION { [1..n -> NameChars] : n \in 1..MaxNameLen }

\* entities of one or two fields
RoundTripEntities == Mappings(Names, {"a", "b"}) \ {<<>>}

\* override tables for these field names: none, or one that names the column
\* of field aB
RoundTripColumnMaps == { <<>>, << <<<<"a", "B">>, <<"a">>>> >> }

\* the row object whose keys are the columns getCreateMapping lists for the
\* entries and whose values are their values
RECURSIVE rowFrom(_, _)
rowFrom(r, entries) ==
    IF entries = <<>> THEN r
    ELSE rowFrom(Assign(r, getColumnName(entries[1][1]), entries[1][2]), Tail(entries))

entityToRow(e) == rowFrom(<<>>, e)

RoundTripInit ==
    /\ COLUMN_MAP \in RoundTripColumnMaps
    /\ NoCallInProgress
    /\ AllPooled
    /\ NoCooldowns
    /\ NoCommandCooldowns
    /\ NoInteractions
    /\ domainEntity \in RoundTripEntities
    /\ storageRow = <<>>
    /\ mappedEntity = <<>>

WriteRow ==
    /\ storageRow = <<>>
    /\ storageRow' = <<entityToRow(domainEntity)>>
    /\ UNCHANGED <<queryVars, poolVars, cooldownVars, handlerVars, domainEntity, mappedEntity>>

ReadRow ==
    /\ storageRow # <<>>
    /\ mappedEntity = <<>>
    /\ mappedEntity' = <<mapRowToEntity(storageRow[1])>>
    /\ UNCHANGED <<queryVars, poolVars, cooldownVars, handlerVars, domainEntity, storageRow>>

RoundTripNext ==
    \/ WriteRow
    \/ ReadRow

RoundTripSpec == RoundTripInit /\ [][RoundTripNext]_vars

-----------------------------------------------------------------------------
(* Reading an issued statement back *)

SingleRowOps == {"find", "get", "exists", "update", "updateAndReturn", "delete"}

\* the keywords that open or close a clause of a statement
ClauseMarks ==
    { Kw(w) : w \in {"SET", "WHERE", "LIMIT 1", ")", "RETURNING *", "ORDER BY",
                     "LIMIT", "OFFSET", "(", ") VALUES (", ") RETURNING *",
                     ") ON CONFLICT (", ") DO UPDATE SET"} }

HasMark(text, word) == \E i \in 1..Len(text) : text[i] = Kw(word)

MarkAt(text, word) == CHOOSE i \in 1..Len(text) : text[i] = Kw(word)

\* the first clause mark after position i, or the end of the text
NextMark(text, i) ==
    IF \E j \in (i + 1)..Len(text) : text[j] \in ClauseMarks
    THEN CHOOSE j \in (i + 1)..Len(text) :
            /\ text[j] \in ClauseMarks
            /\ \A k \in (i + 1)..(j - 1) : text[k] \notin ClauseMarks
    ELSE Len(text) + 1

\* the tokens of the clause that the keyword opens
Clause(text, word) ==
    IF HasMark(text, word)
    THEN SubSeq(text, MarkAt(text, word) + 1, NextMark(text, MarkAt(text, word)) - 1)
    ELSE <<>>

\* the `column = $n` terms of a clause, in order, without their separators
Terms(clause) ==
    [i \in 1..((Len(clause) + 1) \div 4) |->
        [column |-> clause[4 * (i - 1) + 1].name, num |-> clause[4 * (i - 1) + 3].num]]

\* the clause is a list of `column = $n` terms and nothing else
IsTermList(clause, sep) ==
    /\ Len(clause) % 4 = 3
    /\ \A i \in 1..Len(clause) :
        CASE i % 4 = 1 -> clause[i].kind = "ident"
          [] i % 4 = 2 -> clause[i] = Kw("=")
          [] i % 4 = 3 -> clause[i].kind = "ph"
          [] OTHER -> clause[i] = Kw(sep)

\* the column a field of this configuration is stored under: the override
\* table's column when it names one, the snake_case spelling otherwise
ExpectedColumn(key) ==
    IF \E i \in 1..Len(COLUMN_MAP) : COLUMN_MAP[i][1] = key
    THEN COLUMN_MAP[CHOOSE i \in 1..Len(COLUMN_MAP) : COLUMN_MAP[i][1] = key][2]
    ELSE CASE key = F_id -> <<"i","d">>
           [] key = F_channelId -> <<"c","h","a","n","n","e","l","_","i","d">>
           [] key = F_status -> <<"s","t","a","t","u","s">>

\* the store answered the statement of this call without an error
Answered == pc = "settled" /\ response # <<>> /\ response[1].error = <<>>

-----------------------------------------------------------------------------
(* C1: find, get, exists, update, updateAndReturn and delete called with an
   identifier of zero entries fail, and the call has handed no statement to
   the store. *)
C1_EmptyIdentifierRejected ==
    (call.op \in SingleRowOps /\ Len(call.identifier) = 0)
        => /\ pc = "settled"
           /\ outcome.kind = "throw"
           /\ outcome.error = PlainError("Identifier object cannot be empty")
           /\ issued = <<>>
           /\ response = <<>>

C1_Witness ==
    /\ call.op = "update"
    /\ call.identifier = <<>>
    /\ call.updates # <<>>
    /\ outcome.kind = "throw"
    /\ issued = <<>>

(* C2: deleteAll with a filter mapping that has no keys raises an error and
   issues no statement; with a filter that has at least one present value it
   issues exactly one DELETE and, once the store has answered, returns the
   affected-row count the store reported. *)
HasPresentValue(filters) ==
    \E i \in 1..Len(filters) : filters[i][2] \notin {Undefined, Null}

C2_DeleteAllGuard ==
    (call.op = "deleteAll" /\ call.filters # <<>>)
        => /\ Len(call.filters[1]) = 0
              => /\ pc = "settled"
                 /\ outcome.kind = "throw"
                 /\ outcome.error.name = "Error"
                 /\ issued = <<>>
           /\ HasPresentValue(call.filters[1])
              => /\ Len(issued) = 1
                 /\ issued[1].text[1] = Kw("DELETE FROM")
                 /\ issued[1].text[2] = Ident(table)
                 /\ Answered
                    => /\ outcome.kind = "return"
                       /\ outcome.count = response[1].rowCount

C2_Witness ==
    /\ call.op = "deleteAll"
    /\ call.filters # <<>>
    /\ HasPresentValue(call.filters[1])
    /\ Answered
    /\ response[1].rowCount = 2
    /\ outcome.kind = "return"
    /\ outcome.count = 2

(* C3: deleteAll never issues a DELETE whose WHERE condition is the tautology
   (a table-wide deletion), whatever the filters argument: also for a filter
   mapping that has keys but only absent (undefined or null) values. *)
C3_NoTableWideDelete ==
    call.op = "deleteAll"
        => \A i \in 1..Len(issued) : Clause(issued[i].text, "WHERE") # Tautology

(* C4: update, updateAndReturn and delete: when the store reports zero
   affected rows the call fails with a NotFoundError carrying the table name
   as entity name and the identifier as criteria; when it reports at least
   one affected row the call succeeds, and updateAndReturn returns the entity
   mapped from the first returned row. *)
C4_ZeroRowsIsNotFound ==
    (call.op \in {"update", "updateAndReturn", "delete"} /\ Answered)
        => /\ response[1].rowCount = 0
              => /\ outcome.kind = "throw"
                 /\ outcome.error.name = "NotFoundError"
                 /\ outcome.error.entityName = table
                 /\ outcome.error.criteria = call.identifier
           /\ response[1].rowCount >= 1
              => /\ outcome.kind = "return"
                 /\ call.op = "updateAndReturn"
                    => outcome.entity = <<mapRowToEntity(response[1].rows[1])>>

C4_Witness ==
    /\ call.op = "updateAndReturn"
    /\ Answered
    /\ response[1].rowCount = 2
    /\ response[1].rows[1] # response[1].rows[2]
    /\ outcome.kind = "return"
    /\ outcome.entity # <<>>

(* C5: find on an identifier that matches no row returns null without
   failing; get on it fails with a NotFoundError whose entity name is the
   table and whose criteria is that identifier; when the store returns a row,
   find returns the entity mapped from it and get returns the same entity. *)
C5_FindNullGetNotFound ==
    (call.op \in {"find", "get"} /\ Answered)
        => /\ (call.op = "find" /\ response[1].rows = <<>>)
              => /\ outcome.kind = "return"
                 /\ outcome.entity = <<>>
           /\ (call.op = "get" /\ response[1].rows = <<>>)
              => /\ outcome.kind = "throw"
                 /\ outcome.error.name = "NotFoundError"
                 /\ outcome.error.entityName = table
                 /\ outcome.error.criteria = call.identifier
           /\ response[1].rows # <<>>
              => /\ outcome.kind = "return"
                 /\ outcome.entity = <<mapRowToEntity(response[1].rows[1])>>

C5_Witness ==
    /\ call.op = "get"
    /\ Len(call.identifier) = 2
    /\ Answered
    /\ response[1].rows = <<>>
    /\ outcome.kind = "throw"
    /\ outcome.error.name = "NotFoundError"

(* C6: updateAndReturn: the bound parameter array is the identifier values
   followed by the update values, and every placeholder number of the
   statement, in the WHERE condition and in the SET assignments, is the
   1-based position in that array of the value meant for it, for every
   identifier of n >= 1 entries and every update mapping of m >= 1 entries. *)
C6_UpdateAndReturnPlaceholders ==
    (call.op = "updateAndReturn" /\ issued # <<>> /\ Len(call.updates) >= 1)
        => LET stmt == issued[1]
               n == Len(call.identifier)
               m == Len(call.updates)
               where == Terms(Clause(stmt.text, "WHERE"))
               assigned == Terms(Clause(stmt.text, "SET"))
           IN  /\ stmt.params = [i \in 1..(n + m) |->
                                   IF i <= n THEN call.identifier[i][2]
                                   ELSE call.updates[i - n][2]]
               /\ Len(where) = n
               /\ \A i \in 1..n :
                    /\ where[i].column = ExpectedColumn(call.identifier[i][1])
                    /\ where[i].num = i
               /\ Len(assigned) = m
               /\ \A j \in 1..m :
                    /\ assigned[j].column = ExpectedColumn(call.updates[j][1])
                    /\ assigned[j].num = n + j

(* C7: update and updateAll: the bound parameter array is the WHERE values
   (the identifier values for update, the included filter values for
   updateAll) followed by the update values in the iteration order of the
   update mapping, and each SET placeholder $k is the 1-based position k of
   its own value in that array, so SET numbering starts right after the WHERE
   parameter count. *)
C7_SetNumberingAfterWhere ==
    (call.op \in {"update", "updateAll"} /\ issued # <<>> /\ Len(call.updates) >= 1)
        => LET stmt == issued[1]
               m == Len(call.updates)
               whereClause == Clause(stmt.text, "WHERE")
               where == IF whereClause = Tautology THEN <<>> ELSE Terms(whereClause)
               assigned == Terms(Clause(stmt.text, "SET"))
               w == Len(where)
               source == IF call.op = "update" THEN call.identifier
                         ELSE IF call.filters = <<>> THEN <<>> ELSE call.filters[1]
           IN  /\ Len(stmt.params) = w + m
               /\ call.op = "update" => w = Len(call.identifier)
               /\ \A i \in 1..w :
                    /\ where[i].num = i
                    /\ \E e \in 1..Len(source) :
                         /\ ExpectedColumn(source[e][1]) = where[i].column
                         /\ source[e][2] = stmt.params[i]
               /\ IsTermList(Clause(stmt.text, "SET"), ",")
               /\ Len(assigned) = m
               /\ \A j \in 1..m :
                    /\ assigned[j].column = ExpectedColumn(call.updates[j][1])
                    /\ assigned[j].num = w + j
                    /\ stmt.params[assigned[j].num] = call.updates[j][2]

C7_Witness ==
    /\ call.op = "updateAll"
    /\ call.filters # <<>>
    /\ Len(call.filters[1]) = 2
    /\ call.filters[1][1][2] = Undefined
    /\ call.filters[1][2][2] = "a"
    /\ Len(call.updates) = 2
    /\ call.updates[1][2] # call.updates[2][2]
    /\ issued # <<>>
    /\ Len(issued[1].params) = 3

(* C8: filter-style predicate of findAll, count, updateAll and deleteAll:
   entries whose value is absent (undefined or null) are skipped, the
   remaining entries are numbered contiguously from $1 in the iteration order
   of the mapping, a skipped entry consuming no number, the value list holds
   exactly the included values in that order, and when no entry remains the
   condition is the tautology with an empty value list. *)
FilterOps == {"findAll", "count", "updateAll", "deleteAll"}

Present(entry) == entry[2] \notin {Undefined, Null}

\* how many bound parameters of the statement are not those of its WHERE
TrailingParams ==
    CASE call.op = "updateAll" -> Len(call.updates)
      [] call.op = "findAll" ->
            (IF HasMark(issued[1].text, "LIMIT") THEN 1 ELSE 0)
            + (IF HasMark(issued[1].text, "OFFSET") THEN 1 ELSE 0)
      [] OTHER -> 0

C8_FilterSkipsAndNumbers ==
    (call.op \in FilterOps /\ issued # <<>>)
        => LET stmt == issued[1]
               filters == IF call.filters = <<>> THEN <<>> ELSE call.filters[1]
               included == SelectSeq(filters, Present)
               k == Len(included)
               whereClause == Clause(stmt.text, "WHERE")
               where == Terms(whereClause)
           IN  /\ Len(stmt.params) = k + TrailingParams
               /\ \A i \in 1..k : stmt.params[i] = included[i][2]
               /\ k = 0 => whereClause = Tautology
               /\ k > 0 => /\ IsTermList(whereClause, "AND")
                           /\ Len(where) = k
                           /\ \A i \in 1..k :
                                /\ where[i].column = ExpectedColumn(included[i][1])
                                /\ where[i].num = i

C8_Witness ==
    /\ call.op = "count"
    /\ call.filters # <<>>
    /\ Len(call.filters[1]) = 2
    /\ call.filters[1][1][2] = Undefined
    /\ call.filters[1][2][2] = "b"
    /\ issued # <<>>
    /\ issued[1].params = <<"b">>
    /\ Terms(Clause(issued[1].text, "WHERE"))[1].num = 1

(* C9 as claimed: in a filter-style predicate an entry whose value is an
   explicit null is not skipped: it yields a `column = placeholder` condition
   and null is bound as that placeholder's value, only entries whose value is
   undefined being skipped. *)
NotUndefined(entry) == entry[2] # Undefined

C9_NullIsBound ==
    (call.op \in FilterOps /\ call.filters # <<>> /\ issued # <<>>)
        => LET stmt == issued[1]
               filters == call.filters[1]
               whereClause == Clause(stmt.text, "WHERE")
               where == IF whereClause = Tautology THEN <<>> ELSE Terms(whereClause)
           IN  /\ Len(where) = Len(SelectSeq(filters, NotUndefined))
               /\ \A e \in 1..Len(filters) :
                    filters[e][2] = Null
                        => \E i \in 1..Len(where) :
                             /\ where[i].column = ExpectedColumn(filters[e][1])
                             /\ where[i].num \in 1..Len(stmt.params)
                             /\ stmt.params[where[i].num] = Null

(* C9 as amended: in a filter-style predicate an entry whose value is an
   explicit null is skipped exactly like one whose value is undefined: it
   yields no condition, consumes no placeholder number and binds no value. *)
C9_NullIsSkipped ==
    (call.op \in FilterOps /\ call.filters # <<>> /\ issued # <<>>)
        => LET stmt == issued[1]
               filters == call.filters[1]
               whereClause == Clause(stmt.text, "WHERE")
               where == IF whereClause = Tautology THEN <<>> ELSE Terms(whereClause)
           IN  /\ Len(where) = Len(SelectSeq(filters, Present))
               /\ Len(stmt.params) = Len(where) + TrailingParams
               /\ \A i \in 1..Len(where) : stmt.params[where[i].num] # Null
               /\ \A e \in 1..Len(filters) :
                    filters[e][2] \in {Null, Undefined}
                        => \A i \in 1..Len(where) :
                             where[i].column # ExpectedColumn(filters[e][1])

C9_Witness ==
    /\ call.op = "findAll"
    /\ call.filters # <<>>
    /\ Len(call.filters[1]) = 2
    /\ call.filters[1][1][2] = Null
    /\ call.filters[1][2][2] = "a"
    /\ issued # <<>>
    /\ Len(Terms(Clause(issued[1].text, "WHERE"))) = 1
    /\ issued[1].params[1] = "a"

(* C10: identifier-style predicate: for a non-empty identifier with entries
   (k1,v1)..(kn,vn) in iteration order the condition is
   col(k1) = $1 AND ... AND col(kn) = $n with values [v1..vn], every entry
   being included whatever its value (also null or undefined), where col(k)
   is the override-table column of k when the table has one and the default
   camelCase-to-snake_case rewrite of k otherwise. *)
C10_IdentifierPredicate ==
    (call.op \in SingleRowOps /\ Len(call.identifier) >= 1)
        => LET n == Len(call.identifier)
           IN  /\ Len(issued) = 1
               /\ LET whereClause == Clause(issued[1].text, "WHERE")
                      where == Terms(whereClause)
                  IN  /\ IsTermList(whereClause, "AND")
                      /\ Len(where) = n
                      /\ \A i \in 1..n :
                           /\ where[i].column = ExpectedColumn(call.identifier[i][1])
                           /\ where[i].num = i
                           /\ issued[1].params[i] = call.identifier[i][2]
                      /\ call.op \in {"find", "get", "exists", "delete"}
                           => Len(issued[1].params) = n

C10_Witness ==
    /\ call.op = "delete"
    /\ COLUMN_MAP # <<>>
    /\ Len(call.identifier) = 2
    /\ call.identifier[1] = <<F_channelId, Undefined>>
    /\ call.identifier[2] = <<F_id, Null>>
    /\ issued # <<>>
    /\ issued[1].params = <<Undefined, Null>>

(* C11: findAll and getAll compose the statement as WHERE (from the
   filters), then ORDER BY only if an order field is given (its column
   resolved through the naming transform, direction ASC unless DESC is
   given), then LIMIT only if a limit is given, then OFFSET only if an offset
   is given, always in that order and with nothing else in the text; LIMIT
   binds placeholder number (filter parameter count + 1), OFFSET the next
   unused number, and the parameter array is the filter values, then the
   limit, then the offset.  A limit or offset that is a positive number is
   always bound; what a limit or offset of 0 does is the subject of C30. *)
PositiveNumber(v) == v \in {"1", "2"}

C11_FindAllComposition ==
    (call.op \in {"findAll", "getAll"} /\ issued # <<>>)
        => LET stmt == issued[1]
               text == stmt.text
               o == call.options
               filters == IF call.filters = <<>> THEN <<>> ELSE call.filters[1]
               included == SelectSeq(filters, Present)
               k == Len(included)
               hasOrder == HasMark(text, "ORDER BY")
               hasLimit == HasMark(text, "LIMIT")
               hasOffset == HasMark(text, "OFFSET")
               whereLen == Len(Clause(text, "WHERE"))
               orderAt == 3 + whereLen + 1
               limitAt == 3 + whereLen + (IF hasOrder THEN 3 ELSE 0) + 1
               offsetAt == limitAt + (IF hasLimit THEN 2 ELSE 0)
               nLimit == IF hasLimit THEN 1 ELSE 0
               nOffset == IF hasOffset THEN 1 ELSE 0
           IN  /\ SubSeq(text, 1, 3) = <<Kw("SELECT * FROM"), Ident(table), Kw("WHERE")>>
               /\ whereLen >= 1
               /\ hasOrder <=> o.orderBy # <<>>
               /\ hasOrder
                    => /\ MarkAt(text, "ORDER BY") = orderAt
                       /\ Clause(text, "ORDER BY")
                            = <<Ident(ExpectedColumn(o.orderBy[1])),
                                Kw(IF o.orderDirection = "DESC" THEN "DESC" ELSE "ASC")>>
               /\ hasLimit => o.limit # Undefined
               /\ PositiveNumber(o.limit) => hasLimit
               /\ hasLimit
                    => /\ MarkAt(text, "LIMIT") = limitAt
                       /\ Clause(text, "LIMIT") = <<Placeholder(k + 1)>>
                       /\ stmt.params[k + 1] = o.limit
               /\ hasOffset => o.offset # Undefined
               /\ PositiveNumber(o.offset) => hasOffset
               /\ hasOffset
                    => /\ MarkAt(text, "OFFSET") = offsetAt
                       /\ Clause(text, "OFFSET") = <<Placeholder(k + nLimit + 1)>>
                       /\ stmt.params[k + nLimit + 1] = o.offset
               /\ Len(text) = offsetAt - 1 + 2 * nOffset
               /\ Len(stmt.params) = k + nLimit + nOffset
               /\ \A i \in 1..k : stmt.params[i] = included[i][2]

C11_Witness ==
    /\ call.op = "findAll"
    /\ call.filters # <<>>
    /\ Len(call.filters[1]) = 2
    /\ call.filters[1][1][2] = "a"
    /\ call.filters[1][2][2] = "b"
    /\ call.options.orderBy # <<>>
    /\ call.options.orderDirection = "DESC"
    /\ COLUMN_MAP # <<>>
    /\ issued # <<>>
    /\ issued[1].params = <<"a", "b", "2", "1">>
    /\ Clause(issued[1].text, "OFFSET") = <<Placeholder(4)>>

(* C12: create, createAndReturn and upsert: for a Create mapping of n
   entries the column list, the placeholder list $1..$n and the value list
   all have length n, and the i-th column, the placeholder $i and the i-th
   value all come from the i-th entry of the mapping in iteration order. *)
InsertOps == {"create", "createAndReturn", "upsert"}

\* the clause is a comma-separated list of single tokens (or is empty)
IsList(clause) ==
    /\ clause # <<>> => Len(clause) % 2 = 1
    /\ \A i \in 1..Len(clause) : (i % 2 = 0) <=> (clause[i] = Kw(","))

\* the items of a comma-separated list, in order
Items(clause) == [i \in 1..((Len(clause) + 1) \div 2) |-> clause[2 * i - 1]]

C12_InsertListsAligned ==
    (call.op \in InsertOps /\ issued # <<>>)
        => LET stmt == issued[1]
               n == Len(call.data)
               columnList == Clause(stmt.text, "(")
               placeholderList == Clause(stmt.text, ") VALUES (")
               columns == Items(columnList)
               placeholders == Items(placeholderList)
           IN  /\ SubSeq(stmt.text, 1, 3) = <<Kw("INSERT INTO"), Ident(table), Kw("(")>>
               /\ HasMark(stmt.text, ") VALUES (")
               /\ IsList(columnList)
               /\ IsList(placeholderList)
               /\ Len(columns) = n
               /\ Len(placeholders) = n
               /\ Len(stmt.params) = n
               /\ \A i \in 1..n :
                    /\ columns[i] = Ident(ExpectedColumn(call.data[i][1]))
                    /\ placeholders[i] = Placeholder(i)
                    /\ stmt.params[i] = call.data[i][2]

C12_Witness ==
    /\ call.op = "createAndReturn"
    /\ COLUMN_MAP # <<>>
    /\ Len(call.data) = 2
    /\ call.data[1] = <<F_status, "a">>
    /\ call.data[2] = <<F_channelId, "b">>
    /\ issued # <<>>
    /\ issued[1].params = <<"a", "b">>
    /\ Items(Clause(issued[1].text, ") VALUES (")) = <<Placeholder(1), Placeholder(2)>>

(* C13: upsert: the ON CONFLICT target lists the given conflict field(s)
   resolved through the naming transform, and the DO UPDATE SET clause
   assigns `col = EXCLUDED.col` for every inserted column when no update
   subset is given and for exactly the columns of the given subset
   otherwise; the bound parameters are only the insert values. *)

\* the clause is a list of `col = EXCLUDED.col` assignments (or is empty)
IsExcludedList(clause) ==
    /\ clause # <<>> => Len(clause) % 4 = 3
    /\ \A i \in 1..Len(clause) :
        CASE i % 4 = 1 -> clause[i].kind = "ident"
          [] i % 4 = 2 -> clause[i] = Kw("= EXCLUDED.")
          [] i % 4 = 3 -> clause[i] = clause[i - 2]
          [] OTHER -> clause[i] = Kw(",")

\* the columns assigned by a list of `col = EXCLUDED.col`, in order
AssignedColumns(clause) ==
    [i \in 1..((Len(clause) + 1) \div 4) |-> clause[4 * (i - 1) + 1].name]

C13_UpsertConflictAndUpdate ==
    (call.op = "upsert" /\ issued # <<>>)
        => LET stmt == issued[1]
               target == call.conflictTarget.keys
               conflictList == Clause(stmt.text, ") ON CONFLICT (")
               updateList == Clause(stmt.text, ") DO UPDATE SET")
               conflict == Items(conflictList)
               assigned == AssignedColumns(updateList)
               wanted == IF call.updateFields = <<>>
                         THEN [i \in 1..Len(call.data) |-> call.data[i][1]]
                         ELSE call.updateFields[1]
           IN  /\ HasMark(stmt.text, ") ON CONFLICT (")
               /\ HasMark(stmt.text, ") DO UPDATE SET")
               /\ stmt.text[Len(stmt.text)] = Kw("RETURNING *")
               /\ IsList(conflictList)
               /\ Len(conflict) = Len(target)
               /\ \A i \in 1..Len(target) :
                    conflict[i] = Ident(ExpectedColumn(target[i]))
               /\ IsExcludedList(updateList)
               /\ Len(assigned) = Len(wanted)
               /\ \A i \in 1..Len(wanted) : assigned[i] = ExpectedColumn(wanted[i])
               /\ stmt.params = [i \in 1..Len(call.data) |-> call.data[i][2]]

C13_Witness ==
    /\ call.op = "upsert"
    /\ COLUMN_MAP # <<>>
    /\ Len(call.data) = 2
    /\ call.data[1][1] = F_id
    /\ call.data[2][1] = F_channelId
    /\ call.conflictTarget.isArray
    /\ Len(call.conflictTarget.keys) = 2
    /\ call.updateFields = << <<F_status>> >>
    /\ issued # <<>>
    /\ AssignedColumns(Clause(issued[1].text, ") DO UPDATE SET")) = <<F_status>>
    /\ Len(issued[1].params) = 2

(* C14: when the store rejects the statement of a CRUD operation, the error
   raised to the caller is a member of the layer's taxonomy: a
   ConstraintViolationError when the store reported a uniqueness, foreign-key
   or check violation, and a QueryError carrying the failed statement for any
   other store failure. *)
Rejected == pc = "settled" /\ response # <<>> /\ response[1].error # <<>>

ConstraintViolations == {"unique_violation", "foreign_key_violation", "check_violation"}

C14_StoreFailureInTaxonomy ==
    Rejected
        => /\ outcome.kind = "throw"
           /\ IF response[1].error[1].message \in ConstraintViolations
              THEN outcome.error.name = "ConstraintViolationError"
              ELSE /\ outcome.error.name = "QueryError"
                   /\ outcome.error.query = issued[1].text

(* C15: for every CRUD operation, if the store fails the statement then the
   operation fails to the caller (it never returns a normal result such as
   null, an empty sequence or 0), with the error the store gave, and the
   statement is issued exactly once per call: no call ever has more than one
   statement handed to the store, and a failed call still has exactly the one
   it issued before the failure. *)
C15_StoreFailureFailsOnce ==
    /\ Len(issued) <= 1
    /\ pc = "awaiting" => Len(issued) = 1
    /\ Rejected
        => /\ outcome.kind = "throw"
           /\ outcome.error = response[1].error[1]
           /\ Len(issued) = 1

C15_Witness ==
    /\ call.op = "updateAll"
    /\ Rejected
    /\ response[1].error[1].message = "connection_failure"
    /\ outcome.kind = "throw"
    /\ Len(issued) = 1

(* C16: mapping a storage row to an entity resolves every column to its
   domain field name by consulting the override table first: a column that
   the override table pairs with field f is mapped back to f, and only a
   column without an override goes through the default
   snake_case-to-camelCase rewrite.  Read on every entity an operation
   returns from a row the store answered with. *)

\* the field a column stands for: the override table's field when the table
\* pairs one with this column, the camelCase spelling otherwise
DomainName(column) ==
    IF \E i \in 1..Len(COLUMN_MAP) : COLUMN_MAP[i][2] = column
    THEN COLUMN_MAP[CHOOSE i \in 1..Len(COLUMN_MAP) : COLUMN_MAP[i][2] = column][1]
    ELSE snakeToCamel(column)

\* the entity is the row with every column renamed to its field
IsEntityOf(entity, row) ==
    /\ Len(entity) = Len(row)
    /\ \A i \in 1..Len(row) : entity[i] = <<DomainName(row[i][1]), row[i][2]>>

C16_RowMapsThroughOverride ==
    (Answered /\ outcome.kind = "return")
        => /\ outcome.entity # <<>>
              => IsEntityOf(outcome.entity[1], response[1].rows[1])
           /\ \A i \in 1..Len(outcome.entities) :
                IsEntityOf(outcome.entities[i], response[1].rows[i])

(* C17: round trip: for every entity whose field names have no override and
   contain no underscore, rewriting each field name to its storage column
   (camelToSnake) and mapping the resulting row back (mapRowToEntity) yields
   an entity with the same field names and the same values. *)
HasUnderscore(name) == \E i \in 1..Len(name) : name[i] = "_"

Overridden(name) == \E i \in 1..Len(COLUMN_MAP) : COLUMN_MAP[i][1] = name

PlainNames(e) ==
    \A i \in 1..Len(e) : ~HasUnderscore(e[i][1]) /\ ~Overridden(e[i][1])

C17_RoundTrip ==
    (mappedEntity # <<>> /\ PlainNames(domainEntity))
        => /\ \A i \in 1..Len(domainEntity) :
                storageRow[1][i] = <<camelToSnake(domainEntity[i][1]), domainEntity[i][2]>>
           /\ mappedEntity[1] = domainEntity

C17_Witness ==
    /\ mappedEntity # <<>>
    /\ PlainNames(domainEntity)
    /\ Len(domainEntity) = 2
    /\ domainEntity[1][1] = <<"a", "B">>
    /\ domainEntity[2][1] = <<"B", "B">>
    /\ storageRow[1][1][1] = <<"a", "_", "b">>
    /\ storageRow[1][2][1] = <<"_", "b", "_", "b">>
    /\ mappedEntity[1] = domainEntity

(* C18: a successful begin() acquires one dedicated session from the pool,
   issues exactly one begin-transaction statement on that session before
   returning it to the caller, and the layer never issues a commit, a
   rollback or a release on that session afterwards: whatever follows BEGIN
   in the log of a session was sent by the caller, and a session is back in
   the pool only by the caller's release. *)
BeginSucceeded ==
    pc = "settled" /\ call.op = "begin" /\ outcome.kind = "return"

C18_BeginHandsOverOneSession ==
    /\ BeginSucceeded
        => /\ outcome.client \in Sessions
           /\ outcome.client = call.client
           /\ sessions[outcome.client] =
                [state |-> "returned", log |-> <<ByLayer("BEGIN")>>]
           /\ issued = <<>>
    /\ \A s \in Sessions :
        LET log == sessions[s].log
        IN  /\ sessions[s].state # "pooled" => log # <<>>
            /\ log # <<>>
                => /\ log[1] = ByLayer("BEGIN")
                   /\ \A i \in 2..Len(log) : log[i].by = "caller"
                   /\ sessions[s].state = "pooled"
                        <=> log[Len(log)] = ByCaller("release")

C18_Witness ==
    /\ pc = "idle"
    /\ sessions[1].state = "returned"
    /\ sessions[1].log = <<ByLayer("BEGIN"), ByCaller("COMMIT")>>
    /\ sessions[2].state = "pooled"
    /\ sessions[2].log = <<ByLayer("BEGIN"), ByCaller("release")>>

(* C19: for every builder-based operation (find, exists, update,
   updateAndReturn, delete, findAll, count, updateAll, deleteAll, create,
   createAndReturn, upsert), two calls whose mappings have the same keys in
   the same order and the same pattern of present/absent values but different
   values produce the identical statement text: caller-supplied values reach
   the store only through the positional parameter array.  Every call is
   compared, once it has built its statement or thrown and before the store
   answers, with all calls that differ from it in the values of its mappings
   only. *)
BuilderOps ==
    {"find", "exists", "update", "updateAndReturn", "delete", "findAll", "count",
     "updateAll", "deleteAll", "create", "createAndReturn", "upsert"}

\* the statement a call builds, by operation
QueryOf(c) ==
    CASE c.op = "find" -> findQuery(c.identifier)
      [] c.op = "exists" -> existsQuery(c.identifier)
      [] c.op = "update" -> updateQuery(c.identifier, c.updates)
      [] c.op = "updateAndReturn" -> updateAndReturnQuery(c.identifier, c.updates)
      [] c.op = "delete" -> deleteQuery(c.identifier)
      [] c.op = "findAll" -> findAllQuery(c.filters, c.options)
      [] c.op = "count" -> countQuery(c.filters)
      [] c.op = "updateAll" -> updateAllQuery(c.updates, c.filters)
      [] c.op = "deleteAll" -> deleteAllQuery(c.filters)
      [] c.op = "create" -> createQuery(c.data)
      [] c.op = "createAndReturn" -> createAndReturnQuery(c.data)
      [] c.op = "upsert" -> upsertQuery(c.data, c.conflictTarget, c.updateFields)

\* the mappings with the keys of m in the same order and a present value
\* exactly where m has one
Revalued(m) ==
    { [i \in 1..Len(m) |-> <<m[i][1], w[i]>>] :
        w \in { v \in [1..Len(m) -> Values] :
                  \A i \in 1..Len(m) : Present(<<m[i][1], v[i]>>) <=> Present(m[i]) } }

\* the calls that differ from c in the values of its mappings only
Revaluations(c) ==
    { [c EXCEPT !.identifier = i, !.updates = u, !.filters = f, !.data = d] :
        i \in Revalued(c.identifier),
        u \in Revalued(c.updates),
        f \in (IF c.filters = <<>> THEN {<<>>}
               ELSE { <<m>> : m \in Revalued(c.filters[1]) }),
        d \in Revalued(c.data) }

C19_TextIndependentOfValues ==
    (call.op \in BuilderOps /\ response = <<>>)
        => \A c \in Revaluations(call) :
             LET built == QueryOf(c)
             IN  IF issued = <<>> THEN built.threw
                 ELSE /\ ~built.threw
                      /\ built.stmt.text = issued[1].text
                      /\ Len(built.stmt.params) = Len(issued[1].params)

C19_Witness ==
    /\ call.op = "updateAll"
    /\ call.filters # <<>>
    /\ Len(call.filters[1]) = 2
    /\ Present(call.filters[1][1])
    /\ ~Present(call.filters[1][2])
    /\ Len(call.updates) = 2
    /\ issued # <<>>
    /\ \E c \in Revaluations(call) :
        /\ QueryOf(c).stmt.params # issued[1].params
        /\ QueryOf(c).stmt.text = issued[1].text

(* C20: cooldown scope: after set(c, cfg, ctx1) and before its expiry,
   check(c, cfg, ctx2) reports a cooldown exactly when ctx2 shares the scope
   of cfg.type with ctx1: same user for "user", any context for "global",
   same channel for "channel", same guild for "guild", and same user for
   "guild" when the interaction has no guild; a cooldown of one command never
   puts another command on cooldown.  For a command whose set() calls all
   used cfg: check(c, cfg, ctx2) reports a cooldown exactly when one of those
   calls has not reached its expiry and was made in a context that shares
   the scope with ctx2. *)
SharesScope(type, ctx1, ctx2) ==
    CASE type = "user" -> ctx1.userId = ctx2.userId
      [] type = "global" -> TRUE
      [] type = "channel" -> ctx1.channelId = ctx2.channelId
      [] type = "guild" ->
            IF ctx1.guildId # <<>> /\ ctx2.guildId # <<>>
            THEN ctx1.guildId = ctx2.guildId
            ELSE /\ ctx1.guildId = <<>>
                 /\ ctx2.guildId = <<>>
                 /\ ctx1.userId = ctx2.userId

SetsOf(commandName) ==
    { i \in 1..Len(history) : history[i].commandName = commandName }

C20_CooldownScope ==
    \A commandName \in Commands, cfg \in CooldownConfigs, ctx2 \in Contexts :
        (\A i \in SetsOf(commandName) : history[i].cfg = cfg)
            => (checkReturn(commandName, cfg, ctx2) # <<>>
                  <=> \E i \in SetsOf(commandName) :
                        /\ now < history[i].expiresAt
                        /\ SharesScope(cfg.type, history[i].interaction, ctx2))

(* C21: getRemaining leaves the cooldown manager's state unchanged for every
   argument: the command names held by the manager and the entries of every
   command are the same before and after the call, also when the command has
   no cooldowns and when the addressed entry has expired. *)
Held(cds, mps) == [c \in DOMAIN cds |-> mps[cds[c]]]

C21_GetRemainingLeavesState ==
    [][getRemaining => Held(cooldowns', maps') = Held(cooldowns, maps)]_vars

(* C22: resetUser(u) removes every cooldown entry that belongs to user u
   across all commands and removes no entry that belongs to a different
   user, and the number it returns equals the number of entries it removed.
   An entry belongs to the user whose interaction set it. *)
Entries(cds, mps) ==
    UNION { { [commandName |-> c, key |-> k, userId |-> mps[cds[c]][k].userId] :
                k \in DOMAIN mps[cds[c]] } : c \in DOMAIN cds }

C22_ResetUserRemovesOwn ==
    [][\A u \in Users :
          resetUserCall(u)
            => /\ Entries(cooldowns', maps')
                    = { e \in Entries(cooldowns, maps) : e.userId # u }
               /\ resetUserReturn(u)
                    = Cardinality(Entries(cooldowns, maps))
                        - Cardinality(Entries(cooldowns', maps'))]_vars

(* C23: resetCommand(c) returns true exactly when command c had at least one
   cooldown entry before the call and false otherwise, after any sequence of
   check, set, reset, resetUser and getRemaining calls; after it returns, c
   has no cooldown entry. *)
HasEntries(cds, mps, commandName) ==
    \E e \in Entries(cds, mps) : e.commandName = commandName

C23_ResetCommandReturn ==
    [][\A c \in Commands :
          resetCommandCall(c)
            => /\ resetCommandReturn(c) <=> HasEntries(cooldowns, maps, c)
               /\ ~HasEntries(cooldowns', maps', c)]_vars

(* C24: check on a key with a stored entry: when now < expiresAt it returns
   the positive remaining time (expiresAt - now) / 1000 and leaves the entry
   in place; when now >= expiresAt it removes the entry and returns null; on
   a key with no entry it returns null. *)
Stored(cds, mps, commandName, key) ==
    /\ commandName \in DOMAIN cds
    /\ key \in DOMAIN mps[cds[commandName]]

CheckDoes(commandName, cfg, interaction) ==
    LET key == getKey(commandName, cfg.type, interaction)
        result == checkReturn(commandName, cfg, interaction)
    IN  IF Stored(cooldowns, maps, commandName, key)
        THEN LET entry == maps[cooldowns[commandName]][key]
             IN  IF now < entry.expiresAt
                 THEN /\ Len(result) = 1
                      /\ result[1] > 0
                      /\ result[1] * MsPerSecond = entry.expiresAt - now
                      /\ Stored(cooldowns', maps', commandName, key)
                      /\ maps'[cooldowns'[commandName]][key] = entry
                 ELSE /\ result = <<>>
                      /\ ~Stored(cooldowns', maps', commandName, key)
        ELSE /\ result = <<>>
             /\ ~Stored(cooldowns', maps', commandName, key)

C24_CheckOnEntry ==
    [][\A c \in WithCooldown, ctx \in Contexts :
          checkCall(c, cooldownOf(c), ctx) => CheckDoes(c, cooldownOf(c), ctx)]_vars

\* check has removed an expired entry before its cleanup timer ran, and
\* another entry is still counting down
C24_Witness ==
    /\ Len(history) = 2
    /\ \E t \in timers :
          /\ t.id = 1
          /\ t.due <= now
          /\ ~Stored(cooldowns, maps, t.commandName, t.key)
    /\ \E t \in timers :
          /\ t.id = 2
          /\ t.key # (CHOOSE u \in timers : u.id = 1).key
          /\ Stored(cooldowns, maps, t.commandName, t.key)
          /\ checkReturn(t.commandName, cooldownOf(t.commandName),
                         history[2].interaction) = <<1>>

(* C27: the cleanup timer scheduled by set() removes only the entry that
   this set() created: under every interleaving of set, reset, resetCommand,
   resetUser and timer firings, a timer never removes an entry whose
   expiresAt is still in the future, and never removes from the manager a
   command's entry map that still holds unexpired entries. *)
C27_TimerRemovesOwnEntry ==
    [][TimerFires =>
         \A c \in DOMAIN cooldowns :
            \A k \in DOMAIN maps[cooldowns[c]] :
               now < maps[cooldowns[c]][k].expiresAt
                 => /\ Stored(cooldowns', maps', c, k)
                    /\ maps'[cooldowns'[c]][k] = maps[cooldowns[c]][k]]_vars

(* C25: handleChatCommands, for a command that has a cooldown and a user who
   cannot bypass it: the command is executed if and only if check returned
   null, and the cooldown is set if and only if that execution completed
   without throwing; for a user who can bypass, neither check nor set is
   called and the command is always executed. *)
Bypasses(interaction, cooldown) ==
    \/ interaction.userId \in cooldown.bypassUsers
    \/ /\ interaction.guildId # <<>>
       /\ \E role \in interaction.memberRoles : role \in cooldown.bypassRoles

Executed(h) == h.startedAt # <<>>

C25_HandlerCooldownProtocol ==
    /\ \A i \in 1..Len(handling) :
          LET h == handling[i]
              cooldown == commandHandlers[h.commandName].cooldown
          IN  cooldown # <<>> =>
                IF Bypasses(h.interaction, cooldown[1])
                THEN /\ ~h.checked
                     /\ ~h.cooldownSet
                     /\ Executed(h)
                ELSE /\ h.checked
                     /\ Executed(h) <=> h.cooldownRemaining = <<>>
                     /\ h.cooldownSet <=> h.pc = "done"
    /\ Len(history) = Cardinality({ i \in 1..Len(handling) : handling[i].cooldownSet })

\* one interaction was executed and set the cooldown, and the next one of the
\* same user was refused
C25_Witness ==
    /\ Len(handling) = 2
    /\ handling[1].pc = "done"
    /\ handling[1].cooldownSet
    /\ handling[2].pc = "replied"
    /\ handling[2].checked
    /\ handling[2].cooldownRemaining # <<>>

(* C28: for a command with a user-scoped cooldown of duration d and a user
   who cannot bypass it, at most one execution of the command by that user
   starts in any window shorter than d after a successful execution started,
   also when two interactions of that user are handled concurrently (the
   second arrives while the first is still executing).  Interactions are
   kept in the order of their arrival. *)
UserScoped(h) ==
    LET cooldown == commandHandlers[h.commandName].cooldown
    IN  /\ cooldown # <<>>
        /\ cooldown[1].type = "user"
        /\ ~Bypasses(h.interaction, cooldown[1])

C28_OneExecutionPerWindow ==
    \A i, j \in 1..Len(handling) :
        LET first == handling[i]
            second == handling[j]
        IN  ~ /\ i < j
              /\ first.commandName = second.commandName
              /\ first.interaction.userId = second.interaction.userId
              /\ UserScoped(first)
              /\ UserScoped(second)
              /\ first.pc = "done"
              /\ Executed(second)
              /\ second.startedAt[1] - first.startedAt[1]
                    < cooldownOf(first.commandName).duration * MsPerSecond

(* C26: after any sequence of CRUD operations and begin() calls, including
   failing ones, every session checked out of the pool is one that a
   successful begin() handed to a caller who has not yet released it: a
   begin() that fails (the acquisition or the begin-transaction statement
   fails) leaves no session checked out.  A session that is out of the pool
   and was not handed over is the one the begin() in progress is sending
   BEGIN on. *)
C26_NoSessionLeaked ==
    \A s \in Sessions :
        sessions[s].state = "acquired" => pc = "beginning" /\ call.client = s

(* C29: every UPDATE statement issued by update, updateAndReturn or
   updateAll has at least one assignment in its SET clause, and every INSERT
   issued by create, createAndReturn or upsert has at least one column: a
   call with an empty Update or Create mapping is rejected before any
   statement reaches the store. *)
UpdateOps == {"update", "updateAndReturn", "updateAll"}

C29_NoEmptyUpdateOrInsert ==
    /\ (call.op \in UpdateOps /\ issued # <<>>)
          => /\ call.updates # <<>>
             /\ Clause(issued[1].text, "SET") # <<>>
    /\ (call.op \in InsertOps /\ issued # <<>>)
          => /\ call.data # <<>>
             /\ Clause(issued[1].text, "(") # <<>>

(* C30: findAll appends a LIMIT clause exactly when the options carry a limit
   value and an OFFSET clause exactly when they carry an offset value, for
   every non-negative integer value including 0, and binds that value as the
   clause's parameter. *)
Bound(stmt, word, value) ==
    /\ HasMark(stmt.text, word)
    /\ Len(Clause(stmt.text, word)) = 1
    /\ Clause(stmt.text, word)[1].kind = "ph"
    /\ Clause(stmt.text, word)[1].num \in 1..Len(stmt.params)
    /\ stmt.params[Clause(stmt.text, word)[1].num] = value

C30_LimitOffsetWhenGiven ==
    (call.op \in {"findAll", "getAll"} /\ issued # <<>>)
        => /\ IF call.options.limit # Undefined
              THEN Bound(issued[1], "LIMIT", call.options.limit)
              ELSE ~HasMark(issued[1].text, "LIMIT")
           /\ IF call.options.offset # Undefined
              THEN Bound(issued[1], "OFFSET", call.options.offset)
              ELSE ~HasMark(issued[1].text, "OFFSET")

=============================================================================
